---- MODULE Spec2Model ----
(***************************************************************************)
(* A state-machine model of pyol's asynchronous substrate:                 *)
(*   - pyol.lib.aio.Endpoint     (byte-stream endpoint, src/pyol/lib/aio.py)*)
(*   - pyol.lib.aio.AwaitableVar (latchable value,      src/pyol/lib/aio.py)*)
(*   - pyol.lib.msg.MsgBroker    (publish/subscribe,    src/pyol/lib/msg.py)*)
(* and of the P3 packet codec, pyol.p3.packet (src/pyol/p3/packet.py).      *)
(*                                                                         *)
(* Scheduling is asyncio's: one thread, a coroutine runs without            *)
(* interruption from one await to the next, transport callbacks and other  *)
(* tasks run in between.  Every action below is one such uninterrupted run. *)
(* A task that awaits a future is runnable again once the future is done   *)
(* (has a result or is cancelled); any runnable task may be the next to run.*)
(***************************************************************************)
EXTENDS Integers, Sequences, FiniteSets, TLC

\* ------------------------------------------------------------------ bounds
\* Total number of bytes the transport delivers in one behaviour.
MaxArrived == 3
\* Largest size argument given to recv / recv_exactly.
MaxSize == 2
\* The history counter of a call's suspensions stops counting here.
MaxWaits == 2
\* Publish calls in one behaviour.
MaxPubs == 2
\* Bytes fed to crc16_arc, and bytes of a packet's payload.
MaxData == 3
MaxPayload == 2
\* calls of a producer's publishing methods
MaxCalls == 2

\* ---------------------------------------------------------------- universes
None == "None"
Byte == {0, 1}
\* Tasks that read from the endpoint, and tasks that write to it.
Readers == {"r1", "r2"}
Writers == {"w1", "w2", "w3"}
\* Tasks that wait on the AwaitableVar, and the values it takes.
Waiters == {"a1", "a2", "a3"}
Vals == {"None", "a", "b"}
\* Broker: channel names, Channel instances (X1 and X2 are two instances
\* named "x"), consumers with the Channel each was constructed with, and the
\* tasks that call Consumer.get.
Names == {"wiretap", "dead_letter", "null", "x"}
Chan == {"W", "D", "N", "X1", "X2"}
name_of == [W |-> "wiretap", D |-> "dead_letter", N |-> "null",
            X1 |-> "x", X2 |-> "x"]
\* The order in which instances of one name come into being.
Ord == [W |-> 0, D |-> 0, N |-> 0, X1 |-> 1, X2 |-> 2]
Consumers == {"c1", "c2", "c3", "c4"}
channel_of == [c1 |-> "X1", c2 |-> "X1", c3 |-> "D", c4 |-> "X2"]
Getters == {"g1", "g2"}
\* The channels whose registration changes, and the targets published to.
UserChans == {"D", "X1"}
PublishTargets == {"x", "dead_letter", "X1"}
\* The consumer the getter tasks read from.
GetConsumers == {"c1"}
\* Producers with the Channel each was constructed with, and the calls that
\* publish: Producer.publish, invoke, feed, notify.
Producers == {"p1"}
producer_channel == [p1 |-> "X1"]
Kinds == {"publish", "invoke", "feed", "notify"}
\* The participants used in a with-statement.
Scoped == {"p1", "c1"}
\* The jobs handed to Scheduler.start_job.
Jobs == {"j1", "j2", "j3"}
Tasks == Readers \cup Writers \cup Waiters \cup Getters

Min(a, b) == IF a < b THEN a ELSE b

\* All byte strings of length lo..hi.
Chunks(lo, hi) == UNION {[1..n -> Byte] : n \in lo..hi}

VARIABLES
    \* Endpoint attributes (aio.py 202-217)
    connected,        \* Flag: TRUE when set
    writing_paused,
    flush_awaiters,   \* list of futures, each named by the task that made it
    buffer,
    buffer_awaiter,   \* None, or the future of the task that made it
    transport,        \* "None", "open" or "closed"
    \* the mock transport's outbound buffer (what transport.write received)
    mt_buffer,
    \* tasks: what each coroutine is doing and the future it awaits
    task,
    \* history: all bytes given to data_received, in arrival order
    arrived,
    \* history: results of completed recv / recv_exactly calls, concatenated
    consumed,
    \* AwaitableVar attributes (aio.py 74-85)
    value,
    value_change_events,  \* set of Events, each named by the task that made it
    \* the asyncio.Event of each waiter: TRUE when set
    event,
    \* MsgBroker attributes (msg.py 618-638)
    channels,         \* dict: name -> Channel instance, or None when absent
    in_queue,         \* the broker's queue of (channel, msg)
    \* Channel instances constructed so far, and Channel.consumers of each
    created,
    consumers,
    \* Participant.registered of each consumer
    registered,
    \* Consumer.in_queue of each consumer, and the getters waiting on it
    c_queue,
    getters,
    \* every Msg constructed so far, in construction order
    msgs,
    \* history: the publish calls made, in call order
    published,
    \* history: what Consumer.get returned, per consumer, in return order
    got,
    \* history: consumers on a list that were registered again since
    again,
    \* crc16_arc: the bytes its loop has taken so far and its local crc
    crc_data,
    crc,
    \* codec: a packet that was built, the bytes of a frame, and the packet
    \* decoded from the frame (None while there is none)
    packet,
    frame,
    decoded,
    \* Channel.producers of each Channel, Participant.registered of each
    \* producer
    producers,
    p_registered,
    \* history: the calls of Producer.publish / invoke / feed / notify made,
    \* in call order, each with the message it was made with and how it ended
    p_calls,
    \* Scheduler.tasks, the state of the task of each job, and the event
    \* loop's queue of callbacks that are ready to run
    tasks,
    job,
    ready,
    \* history: the call of register_channel / deregister_channel that made
    \* the last step, if one did
    last_call,
    \* history: the consumers on the target channel's list at each publish
    \* call, in call order
    listed,
    \* the with-statement of each participant: where its task is, and how
    \* the body ended
    scope

epVars == <<connected, writing_paused, flush_awaiters, buffer, buffer_awaiter,
            transport, mt_buffer, arrived, consumed>>
avVars == <<value, value_change_events, event>>
brVars == <<channels, in_queue, created, consumers, registered, c_queue,
            getters, msgs, published, got, again>>
cdVars == <<crc_data, crc, packet, frame, decoded>>
pdVars == <<producers, p_registered, p_calls>>
scVars == <<tasks, job, ready>>
rgVars == <<last_call>>
wsVars == <<scope>>
lsVars == <<listed>>
vars == <<epVars, avVars, brVars, cdVars, pdVars, scVars, rgVars, wsVars,
          lsVars, task>>

\* ------------------------------------------------------------------- tasks
\* pc:   "idle" (no call made), "await" (suspended on its future),
\*       "returned", "raised"
\* fut:  state of the future the task awaits:
\*       "none", "pending", "result", "cancelled"
\* must_cancel: asyncio.Task._must_cancel (cancel() arrived after the future
\*       was already done, CancelledError is thrown at the next step)
\* waits: history, how many times the call has suspended
IdleTask == [pc |-> "idle", op |-> "none", arg |-> 0, fut |-> "none",
             must_cancel |-> FALSE, exc |-> "none", result |-> <<>>,
             waits |-> 0]

Returned(tk, r) == [tk EXCEPT !.pc = "returned", !.result = r,
                              !.fut = "none", !.must_cancel = FALSE]
Raised(tk, e) == [tk EXCEPT !.pc = "raised", !.exc = e,
                            !.fut = "none", !.must_cancel = FALSE]
Suspended(tk) == [tk EXCEPT !.pc = "await", !.fut = "pending",
                               !.waits = Min(tk.waits + 1, MaxWaits)]
Called(t, name, a) == [task[t] EXCEPT !.op = name, !.arg = a]

\* The task's wake-up has been scheduled: the future it awaits is done.
Runnable(t) == task[t].pc = "await" /\ task[t].fut \in {"result", "cancelled"}
\* The await raises CancelledError instead of returning.
Thrown(t) == task[t].fut = "cancelled" \/ task[t].must_cancel

\* asyncio.Task.cancel() on a suspended task: a pending future is cancelled
\* (which schedules the wake-up); with the future already done the task is
\* marked and CancelledError is thrown when it runs.
cancel(t) ==
    /\ task[t].pc = "await"
    /\ task[t].fut # "cancelled"
    /\ ~task[t].must_cancel
    /\ task' = [task EXCEPT ![t] =
                  IF task[t].fut = "pending"
                  THEN [task[t] EXCEPT !.fut = "cancelled"]
                  ELSE [task[t] EXCEPT !.must_cancel = TRUE]]

\* ------------------------------------------------- Endpoint: pure helpers
\* Mutant of Take: the slice taken from the wrong end, buffer[-size:].
Take_tail(buf, size) == SubSeq(buf, Len(buf) - Min(size, Len(buf)) + 1, Len(buf))
\* bytes(self.buffer[:size])
Take(buf, size) == SubSeq(buf, 1, Min(size, Len(buf)))
\* del self.buffer[:size]
Drop(buf, size) == SubSeq(buf, Min(size, Len(buf)) + 1, Len(buf))
\* list.remove(x): drops the first occurrence
RECURSIVE Remove(_, _)
Remove(s, x) ==
    IF s = <<>> THEN <<>>
    ELSE IF Head(s) = x THEN Tail(s)
    ELSE <<Head(s)>> \o Remove(Tail(s), x)

\* ------------------------------------------- Endpoint: transport callbacks
connection_made ==
    /\ transport' = "open"
    /\ connected' = TRUE
    /\ writing_paused' = FALSE
    /\ UNCHANGED <<flush_awaiters, buffer, buffer_awaiter, mt_buffer,
                   arrived, consumed, task>>

\* Mutant of connection_lost: the loss also discards what was received.
connection_lost_discarding ==
    /\ connected' = FALSE
    /\ writing_paused' = TRUE
    /\ buffer' = <<>>
    /\ UNCHANGED <<transport, flush_awaiters, buffer_awaiter,
                   mt_buffer, arrived, consumed, task>>
connection_lost ==
    /\ connected' = FALSE
    /\ writing_paused' = TRUE
    /\ UNCHANGED <<transport, flush_awaiters, buffer, buffer_awaiter,
                   mt_buffer, arrived, consumed, task>>

\* Mutant of WakeBufferAwaiter: the result is set without the test.
WakeBufferAwaiter_always(tk) == [tk EXCEPT !.fut = "result"]
\* The future data_received wakes: set_result unless it is cancelled.
WakeBufferAwaiter(tk) ==
    IF tk.fut = "cancelled" THEN tk ELSE [tk EXCEPT !.fut = "result"]

data_received(data) ==
    /\ Len(arrived) + Len(data) <= MaxArrived
    /\ buffer' = buffer \o data
    /\ arrived' = arrived \o data
    /\ IF buffer_awaiter # None
       THEN /\ buffer_awaiter' = None
            /\ task' = [task EXCEPT ![buffer_awaiter] =
                          WakeBufferAwaiter(task[buffer_awaiter])]
       ELSE UNCHANGED <<buffer_awaiter, task>>
    /\ UNCHANGED <<connected, writing_paused, flush_awaiters, transport,
                   mt_buffer, consumed>>

pause_writing ==
    /\ writing_paused' = TRUE
    /\ UNCHANGED <<connected, flush_awaiters, buffer, buffer_awaiter,
                   transport, mt_buffer, arrived, consumed, task>>

\* Mutant of WakeFlushAwaiters: only the oldest pending waiter is resolved.
WakeFlushAwaiters_first(awaiters) ==
    LET pending == {j \in 1..Len(awaiters) : task[awaiters[j]].fut = "pending"}
    IN {awaiters[i] : i \in {j \in pending : \A k \in pending : j <= k}}
\* The flush waiters resume_writing resolves: those not done.
WakeFlushAwaiters(awaiters) ==
    {awaiters[i] : i \in {j \in 1..Len(awaiters) :
                            task[awaiters[j]].fut = "pending"}}

resume_writing ==
    /\ writing_paused' = FALSE
    /\ task' = [t \in Tasks |->
                  IF t \in WakeFlushAwaiters(flush_awaiters)
                  THEN [task[t] EXCEPT !.fut = "result"]
                  ELSE task[t]]
    /\ UNCHANGED <<connected, flush_awaiters, buffer, buffer_awaiter,
                   transport, mt_buffer, arrived, consumed>>

\* close() up to its sleep(0); with no transport attached transport.close()
\* raises AttributeError to the caller after the two assignments.
close ==
    /\ writing_paused' = TRUE
    /\ connected' = FALSE
    /\ transport' = IF transport = "None" THEN "None" ELSE "closed"
    /\ UNCHANGED <<flush_awaiters, buffer, buffer_awaiter, mt_buffer,
                   arrived, consumed, task>>

\* ------------------------------------------------- Endpoint: flush / send
\* Mutant of FlushMustWait: the test inverted.
FlushMustWait_inverted == ~writing_paused
\* flush() suspends exactly when writing is paused.
FlushMustWait == writing_paused

\* flush() from its first line to its await (or return)
flush_enter(t, tk) ==
    IF ~FlushMustWait
    THEN /\ task' = [task EXCEPT ![t] = Returned(tk, <<>>)]
         /\ UNCHANGED flush_awaiters
    ELSE /\ task' = [task EXCEPT ![t] = Suspended(tk)]
         /\ flush_awaiters' = Append(flush_awaiters, t)

flush(t) ==
    /\ t \in Writers
    /\ task[t].pc = "idle"
    /\ flush_enter(t, Called(t, "flush", 0))
    /\ UNCHANGED <<connected, writing_paused, buffer, buffer_awaiter,
                   transport, mt_buffer, arrived, consumed>>

send(t, data) ==
    /\ t \in Writers
    /\ task[t].pc = "idle"
    /\ IF transport = "None"
       THEN /\ task' = [task EXCEPT ![t] =
                          Raised(Called(t, "send", data), "AttributeError")]
            /\ UNCHANGED <<mt_buffer, flush_awaiters>>
       ELSE /\ mt_buffer' = mt_buffer \o data
            /\ flush_enter(t, Called(t, "send", data))
    /\ UNCHANGED <<connected, writing_paused, buffer, buffer_awaiter,
                   transport, arrived, consumed>>

\* Mutant of flush_finally: the removal in an else clause of the try.
flush_finally_else(awaiters, t) ==
    IF Thrown(t) THEN awaiters ELSE Remove(awaiters, t)
\* flush()'s finally clause, run on return and on CancelledError alike
flush_finally(awaiters, t) == Remove(awaiters, t)

\* A suspended flush (or the flush inside send) runs again: the finally
\* clause removes its waiter, then it returns or re-raises CancelledError.
flush_resume(t) ==
    /\ t \in Writers
    /\ Runnable(t)
    /\ flush_awaiters' = flush_finally(flush_awaiters, t)
    /\ task' = [task EXCEPT ![t] =
                  IF Thrown(t) THEN Raised(task[t], "CancelledError")
                  ELSE Returned(task[t], <<>>)]
    /\ UNCHANGED <<connected, writing_paused, buffer, buffer_awaiter,
                   transport, mt_buffer, arrived, consumed>>

\* ------------------------------------------ Endpoint: recv / recv_exactly
\* wait_for_buffer refuses a second waiter.
BufferBusy(ba) == ba # None

\* wait_for_buffer from its first line to its await; ba is buffer_awaiter
\* as this step sees it.
wait_for_buffer_enter(t, tk, ba) ==
    IF BufferBusy(ba)
    THEN /\ task' = [task EXCEPT ![t] = Raised(tk, "RuntimeError")]
         /\ buffer_awaiter' = ba
    ELSE /\ task' = [task EXCEPT ![t] = Suspended(tk)]
         /\ buffer_awaiter' = t

\* wait_for_buffer's finally clause: buffer_awaiter after the await ended.
wait_for_buffer_exit(ba) == None

\* recv from "data = bytes(self.buffer[:size])" on
recv_take(t, tk, ba, size) ==
    /\ task' = [task EXCEPT ![t] = Returned(tk, Take(buffer, size))]
    /\ buffer' = Drop(buffer, size)
    /\ consumed' = consumed \o Take(buffer, size)
    /\ buffer_awaiter' = ba

\* Mutant of NeedsMore: waits only while the buffer is empty, as recv does.
NeedsMore_empty(buf, size) == Len(buf) = 0
\* recv_exactly's loop condition
NeedsMore(buf, size) == Len(buf) < size

\* recv_exactly from its while loop on
recv_exactly_loop(t, tk, ba, size) ==
    IF NeedsMore(buffer, size)
    THEN /\ wait_for_buffer_enter(t, tk, ba)
         /\ UNCHANGED <<buffer, consumed>>
    ELSE recv_take(t, tk, ba, size)

recv(t, size) ==
    /\ t \in Readers
    /\ task[t].pc = "idle"
    /\ LET tk == Called(t, "recv", size) IN
       IF size < 0
       THEN /\ task' = [task EXCEPT ![t] = Raised(tk, "ValueError")]
            /\ UNCHANGED <<buffer, buffer_awaiter, consumed>>
       ELSE IF size = 0
       THEN /\ task' = [task EXCEPT ![t] = Returned(tk, <<>>)]
            /\ UNCHANGED <<buffer, buffer_awaiter, consumed>>
       ELSE IF buffer = <<>>
       THEN /\ wait_for_buffer_enter(t, tk, buffer_awaiter)
            /\ UNCHANGED <<buffer, consumed>>
       ELSE recv_take(t, tk, buffer_awaiter, size)
    /\ UNCHANGED <<connected, writing_paused, flush_awaiters, transport,
                   mt_buffer, arrived>>

recv_exactly(t, size) ==
    /\ t \in Readers
    /\ task[t].pc = "idle"
    /\ LET tk == Called(t, "recv_exactly", size) IN
       IF size < 0
       THEN /\ task' = [task EXCEPT ![t] = Raised(tk, "ValueError")]
            /\ UNCHANGED <<buffer, buffer_awaiter, consumed>>
       ELSE IF size = 0
       THEN /\ task' = [task EXCEPT ![t] = Returned(tk, <<>>)]
            /\ UNCHANGED <<buffer, buffer_awaiter, consumed>>
       ELSE recv_exactly_loop(t, tk, buffer_awaiter, size)
    /\ UNCHANGED <<connected, writing_paused, flush_awaiters, transport,
                   mt_buffer, arrived>>

wait_for_buffer(t) ==
    /\ t \in Readers
    /\ task[t].pc = "idle"
    /\ wait_for_buffer_enter(t, Called(t, "wait_for_buffer", 0), buffer_awaiter)
    /\ UNCHANGED <<connected, writing_paused, flush_awaiters, buffer,
                   transport, mt_buffer, arrived, consumed>>

\* A suspended reader runs again.  The finally clause of wait_for_buffer
\* runs first; a cancelled reader stops there, the others go on in their
\* caller (recv takes what is there, recv_exactly loops).
reader_resume(t) ==
    /\ t \in Readers
    /\ Runnable(t)
    /\ LET ba == wait_for_buffer_exit(buffer_awaiter) IN
       IF Thrown(t)
       THEN /\ task' = [task EXCEPT ![t] = Raised(task[t], "CancelledError")]
            /\ buffer_awaiter' = ba
            /\ UNCHANGED <<buffer, consumed>>
       ELSE IF task[t].op = "recv"
       THEN recv_take(t, task[t], ba, task[t].arg)
       ELSE IF task[t].op = "recv_exactly"
       THEN recv_exactly_loop(t, task[t], ba, task[t].arg)
       ELSE /\ task' = [task EXCEPT ![t] = Returned(task[t], <<>>)]
            /\ buffer_awaiter' = ba
            /\ UNCHANGED <<buffer, consumed>>
    /\ UNCHANGED <<connected, writing_paused, flush_awaiters, transport,
                   mt_buffer, arrived>>

\* ------------------------------------------------------------ AwaitableVar
\* The value setter: store, then set every registered event; setting an
\* event that is not yet set resolves the future of the task waiting on it.
\* Mutant of set_value: the loop over the events stops after the first one.
set_value_first(new_value) ==
    /\ value' = new_value
    /\ LET first == IF value_change_events = {} THEN {}
                    ELSE {CHOOSE t \in value_change_events : TRUE}
       IN /\ event' = [t \in Waiters |->
                         IF t \in first THEN TRUE ELSE event[t]]
          /\ task' = [t \in Tasks |->
                        IF /\ t \in first
                           /\ ~event[t]
                           /\ task[t].fut = "pending"
                        THEN [task[t] EXCEPT !.fut = "result"]
                        ELSE task[t]]
    /\ UNCHANGED value_change_events
\* The value setter: every registered event is set, which resolves the
\* future of the task waiting on it.
set_value(new_value) ==
    /\ value' = new_value
    /\ event' = [t \in Waiters |->
                   IF t \in value_change_events THEN TRUE ELSE event[t]]
    /\ task' = [t \in Tasks |->
                  IF /\ t \in value_change_events
                     /\ ~event[t]
                     /\ task[t].fut = "pending"
                  THEN [task[t] EXCEPT !.fut = "result"]
                  ELSE task[t]]
    /\ UNCHANGED value_change_events

\* Mutant of KeepsWaiting: one wake-up is taken for the value (an if where
\* the code loops).
KeepsWaiting_once(cur, wanted) == FALSE
\* wait_for_value's loop condition
KeepsWaiting(cur, wanted) == cur # wanted

\* wait_for_value from its first line to its first await (or return).  The
\* fresh Event is not set, so event.wait() suspends.
wait_for_value(t, v) ==
    /\ t \in Waiters
    /\ task[t].pc = "idle"
    /\ LET tk == Called(t, "wait_for_value", v) IN
       IF value = v
       THEN /\ task' = [task EXCEPT ![t] = Returned(tk, <<>>)]
            /\ UNCHANGED <<value_change_events, event>>
       ELSE /\ value_change_events' = value_change_events \cup {t}
            /\ event' = [event EXCEPT ![t] = FALSE]
            /\ task' = [task EXCEPT ![t] = Suspended(tk)]
    /\ UNCHANGED value

\* A suspended wait_for_value runs again.  Cancelled, CancelledError leaves
\* through the loop (there is no finally: the event stays registered).
\* Otherwise the event is cleared and the loop tests the value again; the
\* cleared event makes the next event.wait() suspend.
wait_for_value_resume(t) ==
    /\ t \in Waiters
    /\ Runnable(t)
    /\ IF Thrown(t)
       THEN /\ task' = [task EXCEPT ![t] = Raised(task[t], "CancelledError")]
            /\ UNCHANGED <<value_change_events, event>>
       ELSE /\ event' = [event EXCEPT ![t] = FALSE]
            /\ IF KeepsWaiting(value, task[t].arg)
               THEN /\ task' = [task EXCEPT ![t] = Suspended(task[t])]
                    /\ UNCHANGED value_change_events
               ELSE /\ task' = [task EXCEPT ![t] = Returned(task[t], <<>>)]
                    /\ value_change_events' = value_change_events \ {t}
    /\ UNCHANGED value

\* ------------------------------------------------------------------ Msg
\* A Msg object is named by its place in msgs; msg_id is the value drawn
\* from Msg.msg_id_counter (itertools.count()), timestamp is TRUE once set.
\* channel_name and msg are those of a DeadLetterMsg (None / 0 otherwise).
msg_id_counter == Len(msgs)

DataMsg ==
    [msg_id |-> msg_id_counter, intent |-> "DATA", sender |-> "test",
     timestamp |-> FALSE, channel_name |-> None, msg |-> 0]

CmdMsg == [DataMsg EXCEPT !.intent = "CMD"]
EventMsg == [DataMsg EXCEPT !.intent = "EVENT"]

\* Mutant of DeadLetterMsg: the wrapper takes over the id of the message it
\* wraps.
DeadLetterMsg_same_id(counter, channel_name, msg) ==
    [msg_id |-> counter - 1, intent |-> "DEADLETTER", sender |-> "deadletter",
     timestamp |-> FALSE, channel_name |-> channel_name, msg |-> msg]
DeadLetterMsg(counter, channel_name, msg) ==
    [msg_id |-> counter, intent |-> "DEADLETTER", sender |-> "deadletter",
     timestamp |-> FALSE, channel_name |-> channel_name, msg |-> msg]

\* -------------------------------------------------------------- Channel
\* Mutant of register_consumer: appends without looking.
register_consumer_always(list, consumer) == Append(list, consumer)
\* Channel.register_consumer / deregister_consumer on the consumers list
register_consumer(list, consumer) ==
    IF consumer \notin {list[i] : i \in 1..Len(list)}
    THEN Append(list, consumer)
    ELSE list

deregister_consumer(list, consumer) ==
    IF consumer \in {list[i] : i \in 1..Len(list)}
    THEN Remove(list, consumer)
    ELSE list

\* History: the consumers that have been on the channel's list ever since
\* publish k, for every publish still in the broker's queue.
Leaves(ch, c) ==
    [k \in 1..Len(published) |->
        IF published[k].channel = ch
           /\ \E i \in 1..Len(in_queue) : in_queue[i].pub = k
        THEN [published[k] EXCEPT !.stayed = @ \ {c}]
        ELSE published[k]]

\* A Channel is constructed (not registered).
new_channel(ch) ==
    /\ ch \notin created
    /\ created' = created \cup {ch}
    /\ UNCHANGED <<channels, in_queue, consumers, registered, c_queue,
                   getters, msgs, published, got, task, again>>

\* History: the consumers registered again since they came onto the list.
Again(list, c) ==
    IF c \in {list[i] : i \in 1..Len(list)} THEN again \cup {c} ELSE again

\* Channel.register_consumer called directly
channel_register_consumer(ch, c) ==
    /\ ch \in created
    /\ consumers' = [consumers EXCEPT ![ch] = register_consumer(@, c)]
    /\ again' = Again(consumers[ch], c)
    /\ UNCHANGED <<channels, in_queue, created, registered, c_queue,
                   getters, msgs, published, got, task>>

\* ------------------------------------------------------------- Consumer
\* Consumer.register / deregister
consumer_register(c) ==
    /\ channel_of[c] \in created
    /\ consumers' = [consumers EXCEPT ![channel_of[c]] = register_consumer(@, c)]
    /\ registered' = [registered EXCEPT ![c] = TRUE]
    /\ again' = Again(consumers[channel_of[c]], c)
    /\ UNCHANGED <<channels, in_queue, created, c_queue, getters, msgs,
                   published, got, task>>

consumer_deregister(c) ==
    /\ channel_of[c] \in created
    /\ consumers' = [consumers EXCEPT ![channel_of[c]] = deregister_consumer(@, c)]
    /\ registered' = [registered EXCEPT ![c] = FALSE]
    /\ published' = Leaves(channel_of[c], c)
    /\ again' = again \ {c}
    /\ UNCHANGED <<channels, in_queue, created, c_queue, getters, msgs,
                   got, task>>

\* asyncio.Queue._wakeup_next on a getters list: getters are popped from
\* the left until one that is not done is found; that one gets a result.
\* st is [q |-> queues, g |-> getters, t |-> tasks].
RECURSIVE wakeup_next(_, _)
wakeup_next(st, c) ==
    IF st.g[c] = <<>> THEN st
    ELSE LET waiter == Head(st.g[c])
             popped == [st EXCEPT !.g[c] = Tail(@)]
         IN IF st.t[waiter].fut = "pending"
            THEN [popped EXCEPT !.t[waiter].fut = "result"]
            ELSE wakeup_next(popped, c)

\* Mutant of msg_received: the message is put at the front of the queue.
msg_received_front(st, c, item) ==
    wakeup_next([st EXCEPT !.q[c] = <<item>> \o @], c)
\* Consumer.msg_received: in_queue.put_nowait(msg)
msg_received(st, c, item) ==
    wakeup_next([st EXCEPT !.q[c] = Append(@, item)], c)

\* Consumer.get from "msg = await self.in_queue.get()": asyncio.Queue.get
\* waits while the queue is empty, then takes the oldest item.
queue_get(t, tk, c, waiting) ==
    IF c_queue[c] = <<>>
    THEN /\ task' = [task EXCEPT ![t] = Suspended(tk)]
         /\ getters' = [waiting EXCEPT ![c] = Append(@, t)]
         /\ UNCHANGED <<c_queue, got>>
    ELSE /\ task' = [task EXCEPT ![t] = Returned(tk, <<>>)]
         /\ c_queue' = [c_queue EXCEPT ![c] = Tail(@)]
         /\ got' = [got EXCEPT ![c] = Append(@, Head(c_queue[c]))]
         /\ getters' = waiting

\* Mutant of MayGet: the registered flag is not looked at.
MayGet_always(flag) == TRUE
\* Consumer.get goes on when the consumer is registered.
MayGet(flag) == flag

get(t, c) ==
    /\ t \in Getters
    /\ task[t].pc \in {"idle", "returned"}
    /\ LET tk == [IdleTask EXCEPT !.op = "get", !.arg = c] IN
       IF ~MayGet(registered[c])
       THEN /\ task' = [task EXCEPT ![t] = Raised(tk, "RuntimeError")]
            /\ UNCHANGED <<c_queue, getters, got>>
       ELSE queue_get(t, tk, c, getters)
    /\ UNCHANGED <<channels, in_queue, created, consumers, registered, msgs,
                   published, again>>

\* A suspended get runs again.  Woken by a put, it tests the queue again.
\* Cancelled, asyncio.Queue.get removes its getter and, when it had been
\* woken for an item it now cannot take, wakes the next getter.
get_resume(t) ==
    /\ t \in Getters
    /\ Runnable(t)
    /\ LET c == task[t].arg IN
       IF Thrown(t)
       THEN LET st == [q |-> c_queue,
                       g |-> [getters EXCEPT ![c] = Remove(@, t)],
                       t |-> [task EXCEPT ![t] =
                                 Raised(task[t], "CancelledError")]]
                nx == IF c_queue[c] # <<>> /\ task[t].fut # "cancelled"
                      THEN wakeup_next(st, c)
                      ELSE st
            IN /\ task' = nx.t
               /\ getters' = nx.g
               /\ UNCHANGED <<c_queue, got>>
       ELSE queue_get(t, task[t], c, getters)
    /\ UNCHANGED <<channels, in_queue, created, consumers, registered, msgs,
                   published, again>>

\* ------------------------------------------------------------ MsgBroker
wiretap_channel == "W"
dead_letter_channel == "D"
null_channel == "N"

register_channel(ch) ==
    /\ ch \in created
    /\ channels' = IF channels[name_of[ch]] # None
                   THEN channels    \* raises ValueError
                   ELSE [channels EXCEPT ![name_of[ch]] = ch]
    /\ UNCHANGED <<in_queue, created, consumers, registered, c_queue,
                   getters, msgs, published, got, task, again>>

deregister_channel(ch) ==
    /\ ch \in created
    /\ channels' = IF channels[name_of[ch]] # None
                   THEN [channels EXCEPT ![name_of[ch]] = None]
                   ELSE channels
    /\ UNCHANGED <<in_queue, created, consumers, registered, c_queue,
                   getters, msgs, published, got, task, again>>

\* add_channel: the registered instance is returned, or a new Channel is
\* constructed and registered.
add_channel(name) ==
    /\ IF channels[name] # None
       THEN UNCHANGED <<channels, created>>
       ELSE \E ch \in Chan \ created :
               /\ name_of[ch] = name
               /\ \A other \in Chan \ created :
                     name_of[other] = name => Ord[ch] <= Ord[other]
               /\ created' = created \cup {ch}
               /\ channels' = [channels EXCEPT ![name] = ch]
    /\ UNCHANGED <<in_queue, consumers, registered, c_queue, getters, msgs,
                   published, got, task, again>>

\* History: no registry call, and a call of register_channel or
\* deregister_channel with the Channel it was given and what it raised.
NoCall == [op |-> "none", channel |-> None, raised |-> "none"]
RegistryCall(op, ch) ==
    [op |-> op, channel |-> ch,
     raised |-> IF op = "register" /\ channels[name_of[ch]] # None
                THEN "ValueError" ELSE "none"]

\* MsgBroker.has_channel / get_channel (None: ValueError)
has_channel(name) == channels[name] # None
get_channel(name) == channels[name]

\* The name publish looks up: the string, or the Channel's name.
TargetName(target) == IF target \in Names THEN target ELSE name_of[target]

\* Mutant of Route: undeliverable messages go to the null channel.
Route_null(channel_name) ==
    IF channels[channel_name] = None
    THEN null_channel
    ELSE channels[channel_name]
\* The channel publish enqueues for.
Route(channel_name) ==
    IF channels[channel_name] = None
    THEN dead_letter_channel
    ELSE channels[channel_name]

\* Mutant of Stamp: the timestamp is left as it is.
Stamp_not(msg) == msg
\* msg.timestamp = datetime.now(timezone.utc)
Stamp(msg) == [msg EXCEPT !.timestamp = TRUE]

\* Mutant of put_nowait: the entry is handed to the consumers' side at
\* once and never queued.
put_nowait_lost(queue, item) == queue
\* self.in_queue.put_nowait((channel, msg)) on the broker's queue
put_nowait(queue, item) == Append(queue, item)

\* publish(channel, msg), called with a message the caller has just
\* constructed; m is its place in msgs.
publish_msg(target, msg) ==
    /\ Len(published) < MaxPubs
    /\ target \in Names \/ target \in created
    /\ LET m == Len(msgs) + 1
           channel_name == TargetName(target)
           stamped == Append(msgs, Stamp(msg))
           dead == channels[channel_name] = None
           wrapper == Stamp(DeadLetterMsg(Len(stamped), channel_name, m))
           channel == Route(channel_name)
           k == Len(published) + 1
       IN /\ msgs' = IF dead THEN Append(stamped, wrapper) ELSE stamped
          /\ in_queue' = put_nowait(in_queue,
                [channel |-> channel,
                 msg |-> IF dead THEN m + 1 ELSE m,
                 pub |-> k])
          /\ published' = Append(published,
                [target |-> target, msg |-> m, channel |-> channel,
                 stayed |-> {consumers[channel][i] :
                                i \in 1..Len(consumers[channel])}])
    /\ UNCHANGED <<channels, created, consumers, registered, c_queue,
                   getters, got, task, again>>

\* publish of a DataMsg
publish(target) == publish_msg(target, DataMsg)

\* History: the consumers on the list of the channel a publish to target
\* enqueues for.
Listed(target) ==
    {consumers[Route(TargetName(target))][i] :
        i \in 1..Len(consumers[Route(TargetName(target))])}

\* Mutant of Recipients: the consumers that were on the list when the
\* message was published and have stayed.
Recipients_stayed(entry) ==
    SelectSeq(consumers[entry.channel],
              LAMBDA c : c \in published[entry.pub].stayed)
\* Mutant of Recipients: the dispatcher looks the name up again, that of
\* the channel or the one a dead letter was meant for.
Recipients_resolved(entry) ==
    consumers[Route(IF msgs[entry.msg].intent = "DEADLETTER"
                    THEN msgs[entry.msg].channel_name
                    ELSE name_of[entry.channel])]
\* "for consumer in channel.consumers": the channel's list as it is when
\* the dispatcher handles the entry.
Recipients(entry) == consumers[entry.channel]

\* One pass of the dispatcher's inner loop: msg to every consumer of the
\* channel, in list order.
RECURSIVE deliver(_, _, _)
deliver(st, list, item) ==
    IF list = <<>> THEN st
    ELSE deliver(msg_received(st, Head(list), item), Tail(list), item)

\* The dispatcher takes entries until the broker's queue is empty.
RECURSIVE dispatch(_, _)
dispatch(st, entries) ==
    IF entries = <<>> THEN st
    ELSE dispatch(deliver(st, Recipients(Head(entries)),
                          [msg |-> Head(entries).msg,
                           pub |-> Head(entries).pub]),
                  Tail(entries))

\* One run of the dispatcher task: in_queue.get() does not suspend while
\* the queue holds entries, so the run handles all of them.
dispatcher ==
    /\ in_queue # <<>>
    /\ LET st == dispatch([q |-> c_queue, g |-> getters, t |-> task], in_queue)
       IN /\ c_queue' = st.q
          /\ getters' = st.g
          /\ task' = st.t
    /\ in_queue' = <<>>
    /\ UNCHANGED <<channels, created, consumers, registered, msgs,
                   published, got, again>>

\* ------------------------------------------------------------- Producer
\* Channel.register_producer / deregister_producer on the producers list
register_producer(list, producer) ==
    IF producer \notin {list[i] : i \in 1..Len(list)}
    THEN Append(list, producer)
    ELSE list

deregister_producer(list, producer) ==
    IF producer \in {list[i] : i \in 1..Len(list)}
    THEN Remove(list, producer)
    ELSE list

\* Producer.register / deregister
producer_register(p) ==
    /\ producer_channel[p] \in created
    /\ producers' = [producers EXCEPT ![producer_channel[p]] =
                        register_producer(@, p)]
    /\ p_registered' = [p_registered EXCEPT ![p] = TRUE]
    /\ UNCHANGED <<p_calls, brVars, task>>

producer_deregister(p) ==
    /\ producer_channel[p] \in created
    /\ producers' = [producers EXCEPT ![producer_channel[p]] =
                        deregister_producer(@, p)]
    /\ p_registered' = [p_registered EXCEPT ![p] = FALSE]
    /\ UNCHANGED <<p_calls, brVars, task>>

\* The message invoke, feed and notify construct; the caller of publish has
\* constructed one.
MsgOf(kind) ==
    CASE kind = "invoke" -> CmdMsg
      [] kind = "notify" -> EventMsg
      [] OTHER -> DataMsg

\* Mutant of MayPublish: the registered flag is not looked at.
MayPublish_always(flag) == TRUE
\* Producer.publish goes on when the producer is registered.
MayPublish(flag) == flag

\* Producer.publish(msg), and invoke / feed / notify, which construct their
\* message and call publish with it.
produce(p, kind) ==
    /\ Len(p_calls) < MaxCalls
    /\ producer_channel[p] \in created
    /\ LET call == [producer |-> p, kind |-> kind, msg |-> Len(msgs) + 1,
                    outcome |-> "returned"]
       IN IF ~MayPublish(p_registered[p])
          THEN /\ msgs' = Append(msgs, MsgOf(kind))
               /\ p_calls' = Append(p_calls,
                     [call EXCEPT !.outcome = "RuntimeError"])
               /\ UNCHANGED <<channels, in_queue, created, consumers,
                              registered, c_queue, getters, published, got,
                              again, task>>
          ELSE /\ publish_msg(producer_channel[p], MsgOf(kind))
               /\ p_calls' = Append(p_calls, call)
    /\ UNCHANGED <<producers, p_registered>>

\* ---------------------------------------------- Participant: with-statement
\* "with participant: body".  pc is "out" before the statement, "body" while
\* the body runs, "await" while the body is suspended in an await,
\* "cancelled" once Task.cancel() has reached the suspended task, and "left"
\* after the statement; how is the way the body ended.

\* Participant.__enter__: self.register()
scope_enter(x) ==
    /\ scope[x].pc = "out"
    /\ IF x \in Producers
       THEN producer_register(x)
       ELSE consumer_register(x) /\ UNCHANGED pdVars
    /\ scope' = [scope EXCEPT ![x].pc = "body"]

\* Mutant of scope_exit_deregisters: an exception skips the deregister.
scope_exit_on_return(how) == how = "returned"
\* Participant.__exit__ deregisters whatever exc_type is.
scope_exit_deregisters(how) == TRUE

\* Participant.__exit__(exc_type, exc, traceback): self.deregister(); the
\* exception, if any, goes on (None is returned).
scope_exit(x, how) ==
    /\ IF scope_exit_deregisters(how)
       THEN IF x \in Producers
            THEN producer_deregister(x)
            ELSE consumer_deregister(x) /\ UNCHANGED pdVars
       ELSE UNCHANGED <<brVars, pdVars, task>>
    /\ scope' = [scope EXCEPT ![x] = [pc |-> "left", how |-> how]]

\* The body ends by running to its end or by raising.
body_ends(x, how) ==
    /\ scope[x].pc = "body"
    /\ how \in {"returned", "raised"}
    /\ scope_exit(x, how)

\* The body suspends in an await and is resumed.
body_await(x) ==
    /\ scope[x].pc = "body"
    /\ scope' = [scope EXCEPT ![x].pc = "await"]
    /\ UNCHANGED <<brVars, pdVars, task>>

body_resume(x) ==
    /\ scope[x].pc = "await"
    /\ scope' = [scope EXCEPT ![x].pc = "body"]
    /\ UNCHANGED <<brVars, pdVars, task>>

\* Task.cancel() while the body is suspended; when the task runs again,
\* CancelledError is thrown at the await and leaves the statement.
body_cancel(x) ==
    /\ scope[x].pc = "await"
    /\ scope' = [scope EXCEPT ![x].pc = "cancelled"]
    /\ UNCHANGED <<brVars, pdVars, task>>

body_unwind(x) ==
    /\ scope[x].pc = "cancelled"
    /\ scope_exit(x, "CancelledError")

\* The body, or another task while the body is suspended, calls the
\* participant's register or deregister itself.
scope_register(x) ==
    /\ scope[x].pc \in {"body", "await", "cancelled"}
    /\ IF x \in Producers
       THEN producer_register(x)
       ELSE consumer_register(x) /\ UNCHANGED pdVars
    /\ UNCHANGED scope

scope_deregister(x) ==
    /\ scope[x].pc \in {"body", "await", "cancelled"}
    /\ IF x \in Producers
       THEN producer_deregister(x)
       ELSE consumer_deregister(x) /\ UNCHANGED pdVars
    /\ UNCHANGED scope

\* ------------------------------------------------------------ Scheduler
\* The task of a job.  st is "none" (not started), "ready" (a step of the
\* task is in the loop's queue), "waiting" (suspended on a future), or how
\* it finished: "done", "failed", "cancelled".  must_cancel: Task.cancel()
\* has been called and CancelledError is thrown at the task's next step.
\* waits: history, how often the job has suspended.
NoJob == [st |-> "none", must_cancel |-> FALSE, waits |-> 0]
Finished == {"done", "failed", "cancelled"}

\* Mutant of done_callbacks: start_job adds no done callback.
done_callbacks_none(j) == <<>>
\* task.add_done_callback(self.tasks.discard): what a finishing task hands
\* to loop.call_soon.
done_callbacks(j) == <<[run |-> "discard", job |-> j]>>

\* Scheduler.start_job: the task is created (its first step is queued),
\* added to tasks, and given its done callback.
start_job(j) ==
    /\ job[j].st = "none"
    /\ job' = [job EXCEPT ![j].st = "ready"]
    /\ ready' = Append(ready, [run |-> "step", job |-> j])
    /\ tasks' = tasks \cup {j}

\* The event loop runs the callback at the head of its queue.  A step of a
\* task runs the job until it suspends or finishes; a task under
\* cancellation has CancelledError thrown in, and ends cancelled unless the
\* job handles it and raises or awaits again.  A finished task's done
\* callbacks are queued with call_soon; the done callback is
\* self.tasks.discard(task).
loop_run(outcome) ==
    /\ ready # <<>>
    /\ LET head == Head(ready)
           j == head.job
       IN IF head.run = "discard"
          THEN /\ tasks' = tasks \ {j}
               /\ ready' = Tail(ready)
               /\ outcome = "done"
               /\ UNCHANGED job
          ELSE LET result == IF job[j].must_cancel /\ outcome = "done"
                             THEN "cancelled"
                             ELSE outcome
               IN /\ outcome = "waiting" => job[j].waits < MaxWaits
                  /\ job' = [job EXCEPT ![j] =
                                [st |-> result, must_cancel |-> FALSE,
                                 waits |-> IF result = "waiting"
                                           THEN @.waits + 1 ELSE @.waits]]
                  /\ ready' = IF result \in Finished
                              THEN Tail(ready) \o done_callbacks(j)
                              ELSE Tail(ready)
                  /\ UNCHANGED tasks

\* The future a suspended job awaits gets its result: its step is queued.
job_wake(j) ==
    /\ job[j].st = "waiting"
    /\ job' = [job EXCEPT ![j].st = "ready"]
    /\ ready' = Append(ready, [run |-> "step", job |-> j])
    /\ UNCHANGED tasks

\* Task.cancel() on the task of a job that has not finished.
job_cancel(j) ==
    /\ job[j].st \in {"ready", "waiting"}
    /\ ~job[j].must_cancel
    /\ job' = [job EXCEPT ![j].must_cancel = TRUE, ![j].st = "ready"]
    /\ ready' = IF job[j].st = "waiting"
                THEN Append(ready, [run |-> "step", job |-> j])
                ELSE ready
    /\ UNCHANGED tasks

\* ---------------------------------------------------------------- codec
\* Python's ^ on non-negative integers
RECURSIVE BitXor(_, _)
BitXor(a, b) ==
    IF a = 0 THEN b
    ELSE IF b = 0 THEN a
    ELSE (((a % 2) + (b % 2)) % 2) + 2 * BitXor(a \div 2, b \div 2)

\* _crc16_arc_lookup_table (the list is indexed from 0, the sequence from 1)
crc16_arc_lookup_table == <<
    0, 49345, 49537, 320, 49921, 960, 640, 49729,
    50689, 1728, 1920, 51009, 1280, 50625, 50305, 1088,
    52225, 3264, 3456, 52545, 3840, 53185, 52865, 3648,
    2560, 51905, 52097, 2880, 51457, 2496, 2176, 51265,
    55297, 6336, 6528, 55617, 6912, 56257, 55937, 6720,
    7680, 57025, 57217, 8000, 56577, 7616, 7296, 56385,
    5120, 54465, 54657, 5440, 55041, 6080, 5760, 54849,
    53761, 4800, 4992, 54081, 4352, 53697, 53377, 4160,
    61441, 12480, 12672, 61761, 13056, 62401, 62081, 12864,
    13824, 63169, 63361, 14144, 62721, 13760, 13440, 62529,
    15360, 64705, 64897, 15680, 65281, 16320, 16000, 65089,
    64001, 15040, 15232, 64321, 14592, 63937, 63617, 14400,
    10240, 59585, 59777, 10560, 60161, 11200, 10880, 59969,
    60929, 11968, 12160, 61249, 11520, 60865, 60545, 11328,
    58369, 9408, 9600, 58689, 9984, 59329, 59009, 9792,
    8704, 58049, 58241, 9024, 57601, 8640, 8320, 57409,
    40961, 24768, 24960, 41281, 25344, 41921, 41601, 25152,
    26112, 42689, 42881, 26432, 42241, 26048, 25728, 42049,
    27648, 44225, 44417, 27968, 44801, 28608, 28288, 44609,
    43521, 27328, 27520, 43841, 26880, 43457, 43137, 26688,
    30720, 47297, 47489, 31040, 47873, 31680, 31360, 47681,
    48641, 32448, 32640, 48961, 32000, 48577, 48257, 31808,
    46081, 29888, 30080, 46401, 30464, 47041, 46721, 30272,
    29184, 45761, 45953, 29504, 45313, 29120, 28800, 45121,
    20480, 37057, 37249, 20800, 37633, 21440, 21120, 37441,
    38401, 22208, 22400, 38721, 21760, 38337, 38017, 21568,
    39937, 23744, 23936, 40257, 24320, 40897, 40577, 24128,
    23040, 39617, 39809, 23360, 39169, 22976, 22656, 38977,
    34817, 18624, 18816, 35137, 19200, 35777, 35457, 19008,
    19968, 36545, 36737, 20288, 36097, 19904, 19584, 35905,
    17408, 33985, 34177, 17728, 34561, 18368, 18048, 34369,
    33281, 17088, 17280, 33601, 16640, 33217, 32897, 16448
>>

\* Mutant of crc16_arc_byte: the shift is by one nibble.
crc16_arc_byte_nibble(c, byte) ==
    BitXor(c \div 16, crc16_arc_lookup_table[(BitXor(c, byte) % 256) + 1])
\* One pass of crc16_arc's loop:
\* crc = (crc >> 8) ^ _crc16_arc_lookup_table[(crc ^ byte) & 0xFF]
crc16_arc_byte(c, byte) ==
    BitXor(c \div 256, crc16_arc_lookup_table[(BitXor(c, byte) % 256) + 1])

RECURSIVE crc16_arc_loop(_, _)
crc16_arc_loop(c, bytes) ==
    IF bytes = <<>> THEN c
    ELSE crc16_arc_loop(crc16_arc_byte(c, Head(bytes)), Tail(bytes))

crc16_arc(bytes) == crc16_arc_loop(0, bytes)

\* crc16_arc running over a byte string, one pass of its loop per step.
crc16_arc_step(byte) ==
    /\ Len(crc_data) < MaxData
    /\ crc_data' = Append(crc_data, byte)
    /\ crc' = crc16_arc_byte(crc, byte)
    /\ UNCHANGED <<packet, frame, decoded>>

\* A name not bound to a packet yet, an exception raised in place of a
\* result, and the test for a result that is a packet.
NoPacket == [raised |-> "none"]
Raise(e) == [raised |-> e]
IsPacket(x) == "dir" \in DOMAIN x

\* PacketType: DATA .. HEARTBEAT, RESET .. ACKNOW, SYNC
PacketType == {32, 33, 34, 35, 36, 37, 38, 40, 41, 42, 43, 90}

\* x | 0x80 and x & 0x7F on a byte
Or0x80(x) == IF (x \div 128) % 2 = 1 THEN x ELSE x + 128
And0x7F(x) == x % 128

\* struct 'H', big-endian: two bytes
pack_H(n) == <<n \div 256, n % 256>>
unpack_H(hi, lo) == hi * 256 + lo

\* Mutant of type_byte: the direction bit is never set.
type_byte_plain(p) == p.packet_type
\* The type byte as ClientPacket / ServerPacket hand it to struct.pack
type_byte(p) ==
    IF p.dir = "client" THEN Or0x80(p.packet_type) ELSE p.packet_type

\* struct.pack raises struct.error for a length that does not fit 'H'.
pack_raises(p) == p.length \notin 0..65535

\* ClientPacket.compute_crc / ServerPacket.compute_crc
compute_crc(p) ==
    crc16_arc(pack_H(p.length) \o <<p.tx_seq, p.rx_seq, type_byte(p)>>
              \o p.payload)

\* V3ClientPacket.is_valid_crc / V3ServerPacket.is_valid_crc
is_valid_crc(p) == p.crc = compute_crc(p)

\* Mutant of is_valid: strict mode checks the three fields only.
is_valid_fields(p, strict) ==
    IF strict
    THEN p.sync = 90 /\ p.packet_type \in PacketType /\ p.msg_end = <<13>>
    ELSE is_valid_crc(p)
\* Packet.is_valid
is_valid(p, strict) ==
    LET fields == IF strict
                  THEN /\ p.sync = 90
                       /\ p.packet_type \in PacketType
                       /\ p.msg_end = <<13>>
                  ELSE TRUE
    IN fields /\ is_valid_crc(p)

\* The default of the crc and length fields, None, among integers
Unset == -1

\* The dataclass constructor with __post_init__: a length or crc left unset
\* is filled in.  dir is the class, V3ClientPacket or V3ServerPacket.
NewPacket(dir, packet_type, tx_seq, rx_seq, payload, sync, crc_arg, length_arg, msg_end) ==
    LET sized == [dir |-> dir, packet_type |-> packet_type,
                  tx_seq |-> tx_seq, rx_seq |-> rx_seq, payload |-> payload,
                  sync |-> sync, crc |-> 0,
                  length |-> IF length_arg = Unset THEN Len(payload) + 3
                             ELSE length_arg,
                  msg_end |-> msg_end]
    IN IF crc_arg # Unset THEN [sized EXCEPT !.crc = crc_arg]
       ELSE IF pack_raises(sized) THEN Raise("struct.error")
       ELSE [sized EXCEPT !.crc = compute_crc(sized)]

\* ClientPacket.__bytes__ / ServerPacket.__bytes__
to_bytes(p) ==
    <<p.sync>> \o pack_H(p.crc) \o pack_H(p.length)
        \o <<p.tx_seq, p.rx_seq, type_byte(p)>> \o p.payload \o p.msg_end

\* Mutant of from_bytes_type: the client decoder keeps the direction bit.
from_bytes_type_raw(dir, raw) == raw
\* The packet type from_bytes stores for the raw type byte
from_bytes_type(dir, raw) == IF dir = "client" THEN And0x7F(raw) ELSE raw

\* ClientPacket.from_bytes / ServerPacket.from_bytes
from_bytes(dir, bytes) ==
    IF Len(bytes) < 9 THEN Raise("ValueError")
    ELSE LET sync == bytes[1]
             crc_field == unpack_H(bytes[2], bytes[3])
             length == unpack_H(bytes[4], bytes[5])
             payload_len == IF length - 3 < 0 THEN 0 ELSE length - 3
         IN NewPacket(dir, from_bytes_type(dir, bytes[8]), bytes[6], bytes[7],
                      SubSeq(bytes, 9, Min(8 + payload_len, Len(bytes))),
                      sync, crc_field, Unset, <<bytes[Len(bytes)]>>)

\* A V3 packet is built from a type, the sequence numbers and a payload.
build(dir, pt, tx_seq, rx_seq, payload) ==
    /\ packet = NoPacket
    /\ packet' = NewPacket(dir, pt, tx_seq, rx_seq, payload, 90, Unset, Unset,
                           <<13>>)
    /\ UNCHANGED <<crc_data, crc, frame, decoded>>

\* bytes(packet)
encode ==
    /\ IsPacket(packet)
    /\ frame = <<>>
    /\ frame' = to_bytes(packet)
    /\ UNCHANGED <<crc_data, crc, packet, decoded>>

\* One byte of the frame is changed on the way.
tamper(i, mask) ==
    /\ frame # <<>>
    /\ decoded = NoPacket
    /\ frame = to_bytes(packet)
    /\ i \in 1..Len(frame)
    /\ frame' = [frame EXCEPT ![i] = BitXor(@, mask)]
    /\ UNCHANGED <<crc_data, crc, packet, decoded>>

\* The last byte of the frame is lost on the way.
cut ==
    /\ frame # <<>>
    /\ decoded = NoPacket
    /\ frame = to_bytes(packet)
    /\ frame' = SubSeq(frame, 1, Len(frame) - 1)
    /\ UNCHANGED <<crc_data, crc, packet, decoded>>

\* V3ClientPacket.from_bytes(frame) / V3ServerPacket.from_bytes(frame)
decode(dir) ==
    /\ frame # <<>>
    /\ decoded = NoPacket
    /\ decoded' = from_bytes(dir, frame)
    /\ UNCHANGED <<crc_data, crc, packet, frame>>

\* ------------------------------------------------------------ specifications
EndpointInit ==
    /\ connected = FALSE
    /\ writing_paused = TRUE
    /\ flush_awaiters = <<>>
    /\ buffer = <<>>
    /\ buffer_awaiter = None
    /\ transport = "None"
    /\ mt_buffer = <<>>
    /\ arrived = <<>>
    /\ consumed = <<>>

AwaitableVarInit ==
    /\ value = "None"
    /\ value_change_events = {}
    /\ event = [t \in Waiters |-> FALSE]

\* A new broker holds its three channels; no other Channel exists yet, and
\* the consumers that will be constructed are not registered.
MsgBrokerInit ==
    /\ channels = [n \in Names |->
                     IF n = "x" THEN None
                     ELSE CHOOSE ch \in Chan \ {"X1", "X2"} : name_of[ch] = n]
    /\ in_queue = <<>>
    /\ created = {"W", "D", "N"}
    /\ consumers = [ch \in Chan |-> <<>>]
    /\ registered = [c \in Consumers |-> FALSE]
    /\ c_queue = [c \in Consumers |-> <<>>]
    /\ getters = [c \in Consumers |-> <<>>]
    /\ msgs = <<>>
    /\ published = <<>>
    /\ got = [c \in Consumers |-> <<>>]
    /\ again = {}

CodecInit ==
    /\ crc_data = <<>>
    /\ crc = 0
    /\ packet = NoPacket
    /\ frame = <<>>
    /\ decoded = NoPacket

\* The producers that will be constructed are not registered.
ProducerInit ==
    /\ producers = [ch \in Chan |-> <<>>]
    /\ p_registered = [p \in Producers |-> FALSE]
    /\ p_calls = <<>>

\* A new Scheduler has no tasks; no job has been started.
SchedulerInit ==
    /\ tasks = {}
    /\ job = [j \in Jobs |-> NoJob]
    /\ ready = <<>>

Init ==
    /\ last_call = NoCall
    /\ listed = <<>>
    /\ scope = [x \in Scoped |-> [pc |-> "out", how |-> "none"]]
    /\ CodecInit
    /\ ProducerInit
    /\ SchedulerInit
    /\ EndpointInit
    /\ AwaitableVarInit
    /\ MsgBrokerInit
    /\ task = [t \in Tasks |-> IdleTask]

\* The receiving side of an endpoint: readers, arrivals, cancellations.
RecvStep ==
    \/ connection_made
    \/ connection_lost
    \/ \E data \in Chunks(0, 2) : data_received(data)
    \/ \E t \in Readers, size \in -1..MaxSize : recv(t, size)
    \/ \E t \in Readers, size \in -1..MaxSize : recv_exactly(t, size)
    \/ \E t \in Readers : wait_for_buffer(t)
    \/ \E t \in Readers : reader_resume(t)
    \/ \E t \in Readers : cancel(t) /\ UNCHANGED epVars

RecvNext == RecvStep /\ UNCHANGED <<avVars, brVars, cdVars, pdVars, scVars, rgVars, lsVars, wsVars>>
RecvSpec == Init /\ [][RecvNext]_vars

\* The sending side of an endpoint: writers, backpressure, cancellations.
SendStep ==
    \/ connection_made
    \/ connection_lost
    \/ pause_writing
    \/ resume_writing
    \/ close
    \/ \E t \in Writers : flush(t)
    \/ \E t \in Writers, data \in Chunks(1, 1) : send(t, data)
    \/ \E t \in Writers : flush_resume(t)
    \/ \E t \in Writers : cancel(t) /\ UNCHANGED epVars

SendNext == SendStep /\ UNCHANGED <<avVars, brVars, cdVars, pdVars, scVars, rgVars, lsVars, wsVars>>
SendSpec == Init /\ [][SendNext]_vars

\* An endpoint whose connection comes and goes while a recv_exactly, a recv
\* and a flush are made or suspended on it.
LossStep ==
    \/ connection_made
    \/ connection_lost
    \/ \E data \in Chunks(1, 1) : data_received(data)
    \/ resume_writing
    \/ \E size \in 1..MaxSize : recv("r2", size)
    \/ \E size \in 1..MaxSize : recv_exactly("r1", size)
    \/ \E t \in Readers : reader_resume(t)
    \/ \E t \in {"w1"} : flush(t)
    \/ \E t \in {"w1"} : flush_resume(t)

LossNext ==
    LossStep
        /\ UNCHANGED <<avVars, brVars, cdVars, pdVars, scVars, rgVars, lsVars,
                       wsVars>>
LossSpec == Init /\ [][LossNext]_vars

\* An AwaitableVar (a Flag is one whose values are True and False), its
\* writers and the tasks waiting on it.
AVarStep ==
    \/ \E v \in Vals : set_value(v)
    \/ \E t \in Waiters, v \in Vals : wait_for_value(t, v)
    \/ \E t \in Waiters : wait_for_value_resume(t)
    \/ \E t \in Waiters : cancel(t) /\ UNCHANGED avVars

AVarNext == AVarStep /\ UNCHANGED <<epVars, brVars, cdVars, pdVars, scVars, rgVars, lsVars, wsVars>>
AVarSpec == Init /\ [][AVarNext]_vars
\* A Flag (values None, the initial one here, and one other) under an
\* event loop that runs every task whose wake-up has been scheduled.
FlagVals == {"None", "a"}
FlagStep ==
    \/ \E v \in FlagVals : set_value(v)
    \/ \E t \in Waiters, v \in FlagVals : wait_for_value(t, v)
    \/ \E t \in Waiters : wait_for_value_resume(t)
    \/ \E t \in Waiters : cancel(t) /\ UNCHANGED avVars

FlagNext == FlagStep /\ UNCHANGED <<epVars, brVars, cdVars, pdVars, scVars, rgVars, lsVars, wsVars>>
AVarLiveSpec ==
    /\ Init /\ [][FlagNext]_vars
    /\ \A t \in Waiters :
          WF_vars(wait_for_value_resume(t) /\ UNCHANGED <<epVars, brVars, cdVars, pdVars, scVars, rgVars, lsVars, wsVars>>)

\* A broker delivering to a consumer of channel "x" and the tasks that
\* read from it.
DeliverStep ==
    \/ add_channel("x")
    \/ consumer_register("c1")
    \/ consumer_deregister("c1")
    \/ publish("x")
    \/ dispatcher
    \/ \E t \in Getters, c \in GetConsumers : get(t, c)
    \/ \E t \in Getters : get_resume(t)
    \/ \E t \in Getters :
          cancel(t) /\ UNCHANGED <<epVars, avVars, brVars>>

DeliverNext == DeliverStep /\ UNCHANGED <<epVars, avVars, cdVars, pdVars, scVars, rgVars, lsVars, wsVars>>
DeliverSpec == Init /\ [][DeliverNext]_vars

\* A broker dispatching to two consumers of channel "x" that register and
\* deregister while messages are in flight.
DispatchStep ==
    \/ add_channel("x")
    \/ \E c \in {"c1", "c2"} : consumer_register(c)
    \/ \E c \in {"c1", "c2"} : consumer_deregister(c)
    \/ channel_register_consumer(channel_of["c2"], "c2")
    \/ publish("x")
    \/ dispatcher

DispatchNext == DispatchStep /\ UNCHANGED <<epVars, avVars, cdVars, pdVars, scVars, rgVars, lsVars, wsVars>>
\* The event loop runs the dispatcher task whenever it has work.
DispatchSpec ==
    /\ Init /\ [][DispatchNext]_vars
    /\ WF_vars(dispatcher /\ UNCHANGED <<epVars, avVars, cdVars, pdVars, scVars, rgVars, lsVars, wsVars>>)

\* Two consumers of channel "x" come onto its list and leave it between
\* the publish calls and the runs of the dispatcher; the list at each
\* publish call is kept.
RosterStep ==
    \/ add_channel("x") /\ UNCHANGED listed
    \/ \E c \in {"c1", "c2"} : consumer_register(c) /\ UNCHANGED listed
    \/ \E c \in {"c1", "c2"} : consumer_deregister(c) /\ UNCHANGED listed
    \/ publish("x") /\ listed' = Append(listed, Listed("x"))
    \/ dispatcher /\ UNCHANGED listed

RosterNext ==
    RosterStep
        /\ UNCHANGED <<epVars, avVars, cdVars, pdVars, scVars, rgVars, wsVars>>
RosterSpec == Init /\ [][RosterNext]_vars

\* A producer and a consumer of channel "x"; the producer registers and
\* deregisters between its calls, and the channel may be deregistered.
ProducerStep ==
    \/ add_channel("x") /\ UNCHANGED pdVars
    \/ deregister_channel("X1") /\ UNCHANGED pdVars
    \/ consumer_register("c1") /\ UNCHANGED pdVars
    \/ \E p \in Producers : producer_register(p)
    \/ \E p \in Producers : producer_deregister(p)
    \/ \E p \in Producers, kind \in Kinds : produce(p, kind)
    \/ dispatcher /\ UNCHANGED pdVars

ProducerNext == ProducerStep /\ UNCHANGED <<epVars, avVars, cdVars, scVars, rgVars, lsVars, wsVars>>
ProducerSpec == Init /\ [][ProducerNext]_vars

\* The name "x" is given up and added again while a publisher and a
\* consumer hold the first Channel instance; the second instance has its
\* own consumer, and the dead letter channel has one.
ReplaceStep ==
    \/ add_channel("x")
    \/ deregister_channel("X1")
    \/ \E c \in {"c1", "c3", "c4"} : consumer_register(c)
    \/ publish("X1")
    \/ dispatcher

ReplaceNext ==
    ReplaceStep /\ UNCHANGED <<epVars, avVars, cdVars, pdVars, scVars, rgVars, lsVars, wsVars>>
ReplaceSpec == Init /\ [][ReplaceNext]_vars

\* A producer and a consumer of channel "x", each used in a
\* with-statement, while messages are published and dispatched.
ScopeStep ==
    \/ add_channel("x") /\ UNCHANGED <<pdVars, scope>>
    \/ \E x \in Scoped : scope_enter(x)
    \/ \E x \in Scoped, how \in {"returned", "raised"} : body_ends(x, how)
    \/ \E x \in Scoped : body_await(x)
    \/ \E x \in Scoped : body_resume(x)
    \/ \E x \in Scoped : body_cancel(x)
    \/ \E x \in Scoped : body_unwind(x)
    \/ \E x \in Scoped : scope_register(x)
    \/ \E x \in Scoped : scope_deregister(x)
    \/ produce("p1", "feed") /\ UNCHANGED scope
    \/ dispatcher /\ UNCHANGED <<pdVars, scope>>

ScopeNext == ScopeStep /\ UNCHANGED <<epVars, avVars, cdVars, scVars, rgVars, lsVars>>
ScopeSpec == Init /\ [][ScopeNext]_vars

\* Jobs are started, run by the event loop, woken and cancelled.
SchedulerStep ==
    \/ \E j \in Jobs : start_job(j)
    \/ \E outcome \in {"done", "failed", "waiting"} : loop_run(outcome)
    \/ \E j \in Jobs : job_wake(j)
    \/ \E j \in Jobs : job_cancel(j)

SchedulerNext ==
    SchedulerStep
        /\ UNCHANGED <<epVars, avVars, brVars, cdVars, pdVars, rgVars, lsVars, wsVars,
                       task>>
\* The event loop keeps running the callbacks in its queue.
LoopRuns ==
    (\E outcome \in {"done", "failed", "waiting"} : loop_run(outcome))
        /\ UNCHANGED <<epVars, avVars, brVars, cdVars, pdVars, rgVars, lsVars, wsVars,
                       task>>
SchedulerSpec == Init /\ [][SchedulerNext]_vars /\ WF_vars(LoopRuns)

\* Two Channel instances named "x" and the dead letter channel are
\* registered and deregistered by hand while messages are published.
RegistryChans == {"D", "X1", "X2"}
RegistryStep ==
    \/ \E ch \in RegistryChans : new_channel(ch) /\ last_call' = NoCall
    \/ \E ch \in RegistryChans :
          register_channel(ch) /\ last_call' = RegistryCall("register", ch)
    \/ \E ch \in RegistryChans :
          deregister_channel(ch) /\ last_call' = RegistryCall("deregister", ch)
    \/ \E c \in {"c1", "c4"} : consumer_register(c) /\ last_call' = NoCall
    \/ publish("x") /\ last_call' = NoCall
    \/ dispatcher /\ last_call' = NoCall

RegistryNext ==
    RegistryStep
        /\ UNCHANGED <<epVars, avVars, cdVars, pdVars, scVars, wsVars, lsVars>>
RegistrySpec == Init /\ [][RegistryNext]_vars

\* A broker whose channels come and go, with a consumer on "x" and one on
\* the dead letter channel.
DeadLetterStep ==
    \/ \E ch \in UserChans : new_channel(ch)
    \/ \E ch \in UserChans : register_channel(ch)
    \/ \E ch \in UserChans : deregister_channel(ch)
    \/ \E c \in {"c1", "c3"} : consumer_register(c)
    \/ \E c \in {"c1", "c3"} : consumer_deregister(c)
    \/ \E target \in PublishTargets : publish(target)
    \/ dispatcher

DeadLetterNext == DeadLetterStep /\ UNCHANGED <<epVars, avVars, cdVars, pdVars, scVars, rgVars, lsVars, wsVars>>
DeadLetterSpec == Init /\ [][DeadLetterNext]_vars

\* crc16_arc over byte strings: any first byte, then bytes of a sample.
CrcBytes == {0, 1, 90, 128, 255}
CrcStep ==
    \E byte \in (IF crc_data = <<>> THEN 0..255 ELSE CrcBytes) :
        crc16_arc_step(byte)

CrcNext == CrcStep /\ UNCHANGED <<epVars, avVars, brVars, pdVars, scVars, rgVars, lsVars, wsVars, task>>
CrcSpec == Init /\ [][CrcNext]_vars

\* Packets are built, put on the wire, changed in one byte or cut short,
\* and decoded by either decoder.
SeqBytes == {1, 255}
PayloadBytes == {13, 255}
Masks == {1, 128}
\* Every PacketType member and one type byte that is none, 0x27
BuildTypes == PacketType \cup {39}
Payloads ==
    UNION {[1..n -> PayloadBytes] : n \in 0..MaxPayload}
        \cup {[i \in 1..65533 |-> 0]}
CodecStep ==
    \/ \E dir \in {"client", "server"}, pt \in BuildTypes,
          tx_seq \in SeqBytes, rx_seq \in SeqBytes, payload \in Payloads :
          build(dir, pt, tx_seq, rx_seq, payload)
    \/ encode
    \/ \E i \in 1..(9 + MaxPayload), mask \in Masks : tamper(i, mask)
    \/ cut
    \/ \E dir \in {"client", "server"} : decode(dir)

CodecNext == CodecStep /\ UNCHANGED <<epVars, avVars, brVars, pdVars, scVars, rgVars, lsVars, wsVars, task>>
CodecSpec == Init /\ [][CodecNext]_vars

\* ------------------------------------------------------------ shorthands
\* The step in which task t makes the call `name`.
Calls(t, name) == task[t].pc = "idle" /\ task'[t].op = name
\* The step in which the call of task t returns a value.
Returns(t) == task[t].pc # "returned" /\ task'[t].pc = "returned"
\* The step in which the suspended task t runs again.
Resumes(t) ==
    Runnable(t) /\ (task'[t].pc # "await" \/ task'[t].fut = "pending")
\* Task t is suspended and nothing has resolved its waiter yet.
Waiting(t) == task[t].pc = "await" /\ task[t].fut = "pending"
IsRead(name) == name \in {"recv", "recv_exactly"}
Elems(s) == {s[i] : i \in 1..Len(s)}

\* What a consumer has been handed so far: what its get calls returned,
\* then what waits in its queue.
Delivered(c) == got[c] \o c_queue[c]
\* How often publish k occurs in a sequence of delivered items.
CountOf(seq, k) == Cardinality({i \in 1..Len(seq) : seq[i].pub = k})
\* Publish k is still in the broker's queue.
InFlight(k) == \E i \in 1..Len(in_queue) : in_queue[i].pub = k
\* The step in which the dispatcher runs.
Dispatches == in_queue # <<>> /\ in_queue' = <<>>

\* ------------------------------------------------------------------- C1
\* C1: for every consumer, the messages its get calls return, followed by
\* the messages still waiting in its queue, are in the order of the publish
\* calls that sent them; and a get that returns takes the oldest message of
\* the queue.
C1_Order ==
    \A c \in Consumers :
        \A i, j \in 1..Len(Delivered(c)) :
            i < j => Delivered(c)[i].pub < Delivered(c)[j].pub
C1_Get ==
    \A c \in Consumers :
        got'[c] # got[c]
            => /\ c_queue[c] # <<>>
               /\ got'[c] = Append(got[c], Head(c_queue[c]))
               /\ c_queue'[c] = Tail(c_queue[c])
C1_PublishOrder == [](C1_Order) /\ [][C1_Get]_vars

\* Two messages were published to "x" and dispatched together while two
\* tasks were suspended in get of the same consumer; both have returned.
C1_Witness ==
    /\ Len(got["c1"]) = 2
    /\ \A k \in 1..2 : published[k].channel = "X1"
    /\ \A t \in Getters : task[t].pc = "returned" /\ task[t].waits = 1

\* ------------------------------------------------------------------- C2
\* C2: a channel's consumer list never holds a consumer twice; no consumer
\* is handed the message of one publish call twice; a consumer that was on
\* the channel's list from the publish call until the dispatcher handled it
\* has been handed the message exactly once; and every published message
\* is eventually handled by the dispatcher, reaching those consumers.
C2_Distinct ==
    \A ch \in Chan :
        \A i, j \in 1..Len(consumers[ch]) :
            i # j => consumers[ch][i] # consumers[ch][j]
C2_Once ==
    \A c \in Consumers, k \in 1..Len(published) :
        /\ CountOf(Delivered(c), k) <= 1
        /\ (~InFlight(k) /\ c \in published[k].stayed)
              => CountOf(Delivered(c), k) = 1
C2_Reached(k) ==
    /\ k <= Len(published)
    /\ ~InFlight(k)
    /\ \A c \in published[k].stayed : CountOf(c_queue[c], k) = 1
C2_ExactlyOnce ==
    /\ [](C2_Distinct /\ C2_Once)
    /\ \A k \in 1..MaxPubs : InFlight(k) ~> C2_Reached(k)

\* Both consumers were on the list of "x" when a message was published and
\* stayed; one of them was registered again meanwhile; the message is in
\* the queue of each, once.
C2_Witness ==
    \E k \in 1..Len(published) :
        /\ published[k].channel = "X1"
        /\ published[k].stayed = {"c1", "c2"}
        /\ ~InFlight(k)
        /\ again = {"c1", "c2"}
        /\ \A c \in {"c1", "c2"} : CountOf(c_queue[c], k) = 1

\* ------------------------------------------------------------------- C3
\* C3: a publish call whose target's name is not in the registry
\* constructs one DeadLetterMsg holding that name and the original message
\* and puts exactly that one entry on the broker's queue, for the dead
\* letter channel; the dispatcher hands such a wrapper to every consumer on
\* the dead letter channel's list, once, and to no other consumer.
C3_Publish ==
    Len(published') = Len(published) + 1
        => LET k == Len(published')
               p == published'[k]
               name == IF p.target \in Names THEN p.target
                       ELSE name_of[p.target]
               w == Len(msgs')
           IN channels[name] = None
                 => /\ Len(msgs') = Len(msgs) + 2
                    /\ msgs'[p.msg].intent = "DATA"
                    /\ msgs'[w].intent = "DEADLETTER"
                    /\ msgs'[w].channel_name = name
                    /\ msgs'[w].msg = p.msg
                    /\ in_queue' = Append(in_queue,
                          [channel |-> "D", msg |-> w, pub |-> k])
C3_Deliver ==
    Dispatches
        => \A i \in 1..Len(in_queue) :
              msgs[in_queue[i].msg].intent = "DEADLETTER"
                 => \A c \in Consumers :
                       CountOf(got'[c] \o c_queue'[c], in_queue[i].pub)
                          = IF c \in Elems(consumers["D"]) THEN 1 ELSE 0
C3_Only ==
    \A c \in Consumers :
        \A i \in 1..Len(Delivered(c)) :
            msgs[Delivered(c)[i].msg].intent = "DEADLETTER"
                => channel_of[c] = "D"
C3_DeadLetter == [](C3_Only) /\ [][C3_Publish /\ C3_Deliver]_vars

\* "x" is not registered; one message was published to the string "x" and
\* one to the Channel instance X1; the consumer of the dead letter channel
\* holds both wrappers, the consumer on X1's list holds nothing.
C3_Witness ==
    /\ Len(published) = 2
    /\ {published[k].target : k \in 1..2} = {"x", "X1"}
    /\ channels["x"] = None
    /\ consumers["X1"] = <<"c1">>
    /\ c_queue["c1"] = <<>>
    /\ Len(c_queue["c3"]) = 2
    /\ \A i \in 1..2 :
          /\ msgs[c_queue["c3"][i].msg].intent = "DEADLETTER"
          /\ msgs[c_queue["c3"][i].msg].channel_name = "x"

\* ------------------------------------------------------------------- C4
\* C4: received bytes are neither lost, duplicated nor reordered: the
\* results of all completed recv / recv_exactly calls, in completion order,
\* followed by the buffer, are exactly the bytes given to data_received in
\* arrival order; and every read returns a prefix of the buffer and leaves
\* the rest.
C4_Stream == consumed \o buffer = arrived
C4_ReadsHead ==
    \A t \in Readers :
        (Returns(t) /\ IsRead(task'[t].op))
            => /\ buffer = task'[t].result \o buffer'
               /\ consumed' = consumed \o task'[t].result
C4_FifoBytes == [](C4_Stream) /\ [][C4_ReadsHead]_vars

\* Two reads have completed with bytes, a byte is still buffered, and the
\* stream held both byte values.
C4_Witness ==
    /\ \E t1, t2 \in Readers :
          /\ t1 # t2
          /\ task[t1].pc = "returned" /\ task[t1].result # <<>>
          /\ task[t2].pc = "returned" /\ task[t2].result # <<>>
    /\ buffer # <<>>
    /\ Elems(arrived) = Byte

\* ------------------------------------------------------------------- C5
\* C5: recv_exactly(size), size > 0: a run of the call (its first, or one
\* after a wake-up) that finds fewer than size bytes buffered does not
\* return and takes nothing; a run that finds at least size bytes returns
\* exactly the first size bytes and leaves the others in the buffer.
C5_Run(t) ==
    \/ Calls(t, "recv_exactly")
    \/ /\ task[t].op = "recv_exactly"
       /\ Resumes(t) /\ ~Thrown(t)
C5_Step ==
    \A t \in Readers :
        (C5_Run(t) /\ task'[t].arg > 0) =>
            IF Len(buffer) < task'[t].arg
            THEN /\ ~Returns(t)
                 /\ buffer' = buffer
            ELSE /\ Returns(t)
                 /\ task'[t].result = SubSeq(buffer, 1, task'[t].arg)
                 /\ buffer' = SubSeq(buffer, task'[t].arg + 1, Len(buffer))
C5_Length ==
    \A t \in Readers :
        (task[t].pc = "returned" /\ task[t].op = "recv_exactly")
            => Len(task[t].result) = task[t].arg
C5_RecvExactly == [](C5_Length) /\ [][C5_Step]_vars

\* A recv_exactly(2) that was woken with too few bytes, waited again, and
\* returned leaving a byte behind.
C5_Witness ==
    \E t \in Readers :
        /\ task[t].op = "recv_exactly" /\ task[t].arg = 2
        /\ task[t].pc = "returned"
        /\ task[t].waits >= 2
        /\ buffer # <<>>

\* ------------------------------------------------------------------- C6
\* C6: with a transport attached, send(data) hands data to the transport in
\* the step of the call; paused, the call suspends and returns only after
\* resume_writing resolved its waiter (nothing else resolves it); not
\* paused, send and flush return in the step of the call.
C6_Call ==
    \A t \in Writers :
        /\ (Calls(t, "send") /\ transport # "None")
              => /\ mt_buffer' = mt_buffer \o task'[t].arg
                 /\ task'[t].pc = IF writing_paused THEN "await" ELSE "returned"
        /\ Calls(t, "flush")
              => task'[t].pc = IF writing_paused THEN "await" ELSE "returned"
C6_OnlyResume ==
    \A t \in Writers :
        /\ (task[t].pc = "await" /\ Returns(t)) => task[t].fut = "result"
        /\ (Waiting(t) /\ task'[t].fut = "result")
              => (writing_paused' = FALSE /\ UNCHANGED flush_awaiters)
        /\ (Waiting(t) /\ task'[t].fut = "result") => resume_writing
C6_SendBackpressure == [][C6_Call /\ C6_OnlyResume]_vars

\* A send is suspended on a paused, attached transport that already holds
\* its bytes.
C6_Witness ==
    \E t \in Writers :
        /\ task[t].op = "send" /\ Waiting(t)
        /\ transport = "open" /\ writing_paused
        /\ mt_buffer # <<>>

\* ------------------------------------------------------------------- C7
\* C7: resume_writing clears writing_paused and resolves the waiter of
\* every task suspended in flush or send; such a task returns when it next
\* runs, and its waiter is then gone from flush_awaiters, which only ever
\* holds the waiters of suspended calls, each once.
C7_Resume ==
    resume_writing =>
        /\ writing_paused' = FALSE
        /\ \A t \in Writers : Waiting(t) => task'[t].fut = "result"
C7_NextTurn ==
    \A t \in Writers :
        (Resumes(t) /\ ~Thrown(t))
            => /\ task'[t].pc = "returned"
               /\ t \notin Elems(flush_awaiters')
C7_NoStale ==
    /\ \A i \in 1..Len(flush_awaiters) : task[flush_awaiters[i]].pc = "await"
    /\ \A t \in Writers : task[t].pc = "await" => t \in Elems(flush_awaiters)
    /\ Cardinality(Elems(flush_awaiters)) = Len(flush_awaiters)
C7_ResumeWakesAll == [](C7_NoStale) /\ [][C7_Resume /\ C7_NextTurn]_vars

\* Three suspended calls have all been resolved by one resume_writing and
\* none has run yet.
C7_Witness ==
    /\ ~writing_paused
    /\ Len(flush_awaiters) = 3
    /\ \A t \in Writers : task[t].pc = "await" /\ task[t].fut = "result"

\* ------------------------------------------------------------------- C8
\* C8: at any time at most one task is suspended in wait_for_buffer
\* (directly or through recv or recv_exactly) with an unresolved waiter.
C8_SingleWaiter == Cardinality({t \in Readers : Waiting(t)}) <= 1

\* ------------------------------------------------------------------- C9
\* C9: every task suspended on the buffer with an unresolved waiter when
\* data_received is called has its waiter resolved by that call.
C9_Wakes ==
    (\E data \in Chunks(0, 2) : data_received(data))
        => \A t \in Readers : Waiting(t) => task'[t].fut # "pending"
C9_ArrivalWakesWaiter == [][C9_Wakes]_vars

\* ------------------------------------------------------------------ C10
\* C10: wait_for_value(v) returns only in a step that finds value = v; a
\* waiter that was notified and runs when the value is no longer v (or not
\* yet v) stays registered and suspends again.
C10_Step ==
    \A t \in Waiters :
        /\ Returns(t) => (value = task'[t].arg /\ value' = value)
        /\ (Resumes(t) /\ ~Thrown(t) /\ value # task[t].arg)
              => /\ Waiting(t)'
                 /\ t \in value_change_events'
C10_ReturnsOnlyAtValue == [][C10_Step]_vars

\* Two tasks waited for the same value; the value went there and away
\* again; the one that ran in between has returned, the other one was
\* woken too late and waits again.
C10_Witness ==
    \E t1, t2 \in Waiters :
        /\ t1 # t2
        /\ task[t1].pc = "returned" /\ task[t1].waits = 1
        /\ Waiting(t2) /\ task[t2].waits = 2
        /\ task[t1].arg = task[t2].arg
        /\ value # task[t2].arg
        /\ value_change_events = {t2}

\* ------------------------------------------------------------------ C11
\* C11: a write to the value resolves the wait of every task suspended in
\* wait_for_value; a wait_for_value(v) called while value = v returns in the
\* same step, without registering an event; and when the value stays v from
\* some point on, every task is from some point on no longer suspended in
\* wait_for_value(v) (it has returned, or was cancelled).
C11_Notifies ==
    (\E v \in Vals : set_value(v))
        => \A t \in Waiters : Waiting(t) => task'[t].fut = "result"
C11_Immediate ==
    \A t \in Waiters :
        (Calls(t, "wait_for_value") /\ value = task'[t].arg)
            => /\ task'[t].pc = "returned"
               /\ task'[t].waits = 0
               /\ value_change_events' = value_change_events
C11_Ends ==
    \A t \in Waiters :
        /\ task[t].pc = "raised" => task[t].exc = "CancelledError"
        /\ Waiting(t) => value # task[t].arg
C11_Settles(t, v) ==
    <>[](value = v) => <>[](~(task[t].pc = "await" /\ task[t].arg = v))
C11_WriteWakesAll ==
    /\ [](C11_Ends)
    /\ [][C11_Notifies /\ C11_Immediate]_vars
    /\ \A t \in Waiters, v \in FlagVals : C11_Settles(t, v)

\* Two tasks were suspended waiting for the value that was then written and
\* have both returned; a third asked for it afterwards and returned without
\* suspending.
C11_Witness ==
    \E t1, t2, t3 \in Waiters :
        /\ t1 # t2
        /\ \A t \in {t1, t2, t3} : task[t].pc = "returned"
        /\ \A t \in {t1, t2, t3} : task[t].arg = value
        /\ task[t1].waits = 1 /\ task[t2].waits = 1 /\ task[t3].waits = 0
        /\ value_change_events = {}

\* ------------------------------------------------------------------ C12
\* C12: a call of recv, recv_exactly or wait_for_buffer made while the only
\* registered waiter is that of a cancelled call does not raise
\* RuntimeError; and when a cancelled call unwinds, the waiter another task
\* has registered meanwhile stays registered.
C12_NoRaise ==
    \A t \in Readers :
        (/\ task[t].pc = "idle" /\ task'[t].pc # "idle"
         /\ buffer_awaiter # None
         /\ task[buffer_awaiter].fut = "cancelled")
            => task'[t].exc # "RuntimeError"
C12_KeepsLater ==
    \A a, t \in Readers :
        (/\ a # t
         /\ Resumes(a) /\ Thrown(a)
         /\ Waiting(t) /\ buffer_awaiter = t)
            => buffer_awaiter' = t
C12_CancelledReader == [][C12_NoRaise /\ C12_KeepsLater]_vars

\* ------------------------------------------------------------------ C13
\* C13: flush_awaiters holds exactly the waiters of the tasks suspended in
\* flush or send, each once; the step in which a cancelled flush or send
\* unwinds removes its waiter and nothing else; and resume_writing leaves a
\* cancelled waiter that is still on the list as it is.
C13_OnlySuspended ==
    /\ Elems(flush_awaiters) = {t \in Writers : task[t].pc = "await"}
    /\ \A i, j \in 1..Len(flush_awaiters) :
          i # j => flush_awaiters[i] # flush_awaiters[j]
C13_Unwinds ==
    \A t \in Writers :
        (Resumes(t) /\ Thrown(t))
            => /\ task'[t].pc = "raised"
               /\ task'[t].exc = "CancelledError"
               /\ t \notin Elems(flush_awaiters')
               /\ flush_awaiters' = Remove(flush_awaiters, t)
               /\ writing_paused' = writing_paused
C13_ResumeSkips ==
    (writing_paused /\ ~writing_paused')
        => \A t \in Writers :
              task[t].fut = "cancelled" => task'[t] = task[t]
C13_CancelledFlush ==
    [](C13_OnlySuspended) /\ [][C13_Unwinds /\ C13_ResumeSkips]_vars

\* A flush was cancelled while another one waited behind it; writing was
\* resumed; the cancelled one has unwound, the other has returned, and the
\* list is empty again.
C13_Witness ==
    \E t1, t2 \in Writers :
        /\ task[t1].pc = "raised" /\ task[t1].exc = "CancelledError"
        /\ task[t2].pc = "returned" /\ task[t2].waits = 1
        /\ flush_awaiters = <<>>
        /\ ~writing_paused

\* ------------------------------------------------------------------ C14
\* C14: value_change_events holds only the events of the tasks that are
\* suspended in wait_for_value.
C14_OnlySuspended ==
    value_change_events \subseteq {t \in Waiters : task[t].pc = "await"}

\* ------------------------------------------------------------------ C15
\* C15: when data_received runs while the registered buffer waiter is
\* cancelled, the waiter stays cancelled (no result is set on it), the bytes
\* are appended to the buffer and buffer_awaiter is cleared.
C15_Step ==
    \A data \in Chunks(0, 2) :
        (/\ data_received(data)
         /\ buffer_awaiter # None
         /\ task[buffer_awaiter].fut = "cancelled")
            => /\ task' = task
               /\ buffer' = buffer \o data
               /\ buffer_awaiter' = None
C15_CancelledNotResolved == [][C15_Step]_vars

\* One recv was cancelled while it waited; bytes arrived before it ran
\* again: it is still cancelled, the bytes are in the buffer and no waiter
\* is registered.
C15_Witness ==
    \E t \in Readers :
        /\ task[t].pc = "await" /\ task[t].fut = "cancelled"
        /\ \A u \in Readers \ {t} : task[u].pc = "idle"
        /\ buffer_awaiter = None
        /\ buffer # <<>>

\* ------------------------------------------------------------------ C20
\* C20: the table-driven crc16_arc equals the CRC16-ARC computed bit by bit
\* (each byte is xor-ed into the register, which is then shifted right eight
\* times, xor-ing 0xA001 whenever a one is shifted out; the register starts
\* at 0 and is the result as it is); the result fits in 16 bits; the CRC of
\* the empty string is 0; and the CRC of "Deceptio" is 0xF841.
RECURSIVE C20_Shift(_, _)
C20_Shift(reg, n) ==
    IF n = 0 THEN reg
    ELSE C20_Shift(IF reg % 2 = 1 THEN BitXor(reg \div 2, 40961)
                   ELSE reg \div 2, n - 1)
RECURSIVE C20_Bitwise(_, _)
C20_Bitwise(reg, bytes) ==
    IF bytes = <<>> THEN reg
    ELSE C20_Bitwise(C20_Shift(BitXor(reg, Head(bytes)), 8), Tail(bytes))
C20_TableEqualsBitwise ==
    /\ crc = C20_Bitwise(0, crc_data)
    /\ crc16_arc(crc_data) = crc
    /\ crc \in 0..65535
    /\ crc16_arc(<<>>) = 0
    /\ crc16_arc(<<68, 101, 99, 101, 112, 116, 105, 111>>) = 63553

\* The loop has taken a whole string whose first byte uses a table entry
\* from the upper half and whose CRC has both of its bytes non-zero.
C20_Witness ==
    /\ Len(crc_data) = MaxData
    /\ crc_data[1] >= 128
    /\ crc \div 256 # 0 /\ crc % 256 # 0


\* ---------------------------------------------------------------- C16
\* C16: a V3 client packet built from a packet type, two sequence numbers
\* and a payload, turned into bytes and decoded by the client decoder, is
\* the original in every field and is valid in strict mode; the same holds
\* for a server packet and the server decoder.
C16_SameDecoder ==
    /\ IsPacket(packet)
    /\ packet.packet_type \in PacketType
    /\ frame = to_bytes(packet)
    /\ decoded # NoPacket
C16_RoundTrip ==
    C16_SameDecoder =>
        /\ IsPacket(decoded)
        /\ decoded.dir = packet.dir =>
              /\ decoded = packet
              /\ is_valid(decoded, TRUE)

C16_Witness ==
    /\ C16_SameDecoder
    /\ IsPacket(decoded)
    /\ decoded.dir = "client"
    /\ packet.dir = "client"
    /\ Len(packet.payload) > 0
    /\ decoded = packet


\* ---------------------------------------------------------------- C17
\* C17: the CRC of a packet is CRC16-ARC over the length field, tx_seq,
\* rx_seq, the type byte as transmitted and the payload as they appear on
\* the wire, both for a packet that was built (the wire is its bytes) and for
\* a packet decoded from a frame (the wire is that frame); sync, the crc
\* field and msg_end are not part of it.
C17_Built ==
    (IsPacket(packet) /\ frame = to_bytes(packet)) =>
        compute_crc(packet) = crc16_arc(SubSeq(frame, 4, Len(frame) - 1))
C17_Decoded ==
    IsPacket(decoded) =>
        compute_crc(decoded) = crc16_arc(SubSeq(frame, 4, 8) \o decoded.payload)
C17_CrcOverWire == C17_Built /\ C17_Decoded


\* ---------------------------------------------------------------- C18
\* C18: every frame the client decoder accepts as valid carries bit 0x80 in
\* byte 7 (the type byte), every frame produced from a client packet has the
\* bit set, and every frame produced from a server packet whose type is a
\* PacketType member has it clear.
C18_Accepted ==
    (IsPacket(decoded) /\ decoded.dir = "client" /\ is_valid(decoded, TRUE))
        => frame[8] >= 128
C18_Produced ==
    (IsPacket(packet) /\ frame = to_bytes(packet)) =>
        IF packet.dir = "client" THEN frame[8] >= 128
        ELSE packet.packet_type \in PacketType => frame[8] < 128
C18_DirectionBit == C18_Accepted /\ C18_Produced


\* ---------------------------------------------------------------- C19
\* C19: is_valid(strict=True) is true exactly when sync is 0x5A, the packet
\* type is a PacketType member, msg_end is 0x0D and the stored crc equals
\* the recomputed one; is_valid(strict=False) is true exactly when the
\* stored crc equals the recomputed one, whatever sync, type and msg_end
\* are; a packet whose crc does not match is reported invalid, a boolean.
C19_Exactly(p) ==
    /\ is_valid(p, TRUE) \in BOOLEAN
    /\ is_valid(p, FALSE) \in BOOLEAN
    /\ is_valid(p, TRUE) <=> /\ p.sync = 90
                             /\ p.packet_type \in PacketType
                             /\ p.msg_end = <<13>>
                             /\ p.crc = compute_crc(p)
    /\ is_valid(p, FALSE) <=> p.crc = compute_crc(p)
    /\ p.crc # compute_crc(p) => (~is_valid(p, TRUE) /\ ~is_valid(p, FALSE))
C19_IsValid ==
    /\ IsPacket(packet) => C19_Exactly(packet)
    /\ IsPacket(decoded) => C19_Exactly(decoded)

C19_Witness ==
    /\ IsPacket(decoded)
    /\ decoded.packet_type \notin PacketType
    /\ decoded.sync = 90
    /\ decoded.msg_end = <<13>>
    /\ is_valid(decoded, FALSE)
    /\ ~is_valid(decoded, TRUE)


\* ------------------------------------------------------------------ C21
\* C21: Producer.publish, invoke, feed or notify on a producer that is not
\* registered raises RuntimeError and has no effect: nothing is put on the
\* broker's queue, no consumer receives the message, now or later, and the
\* message's timestamp stays unset.
C21_Call ==
    Len(p_calls') = Len(p_calls) + 1
        => LET call == p_calls'[Len(p_calls')] IN
           ~p_registered[call.producer]
              => /\ call.outcome = "RuntimeError"
                 /\ in_queue' = in_queue
                 /\ c_queue' = c_queue
                 /\ published' = published
                 /\ ~msgs'[call.msg].timestamp
C21_Stays ==
    \A i \in 1..Len(p_calls) :
        p_calls[i].outcome = "RuntimeError"
           => /\ ~msgs[p_calls[i].msg].timestamp
              /\ \A k \in 1..Len(in_queue) : in_queue[k].msg # p_calls[i].msg
              /\ \A c \in Consumers :
                    \A k \in 1..Len(Delivered(c)) :
                        Delivered(c)[k].msg # p_calls[i].msg
C21_Unregistered == [](C21_Stays) /\ [][C21_Call]_vars

\* A registered producer fed a message that reached the consumer; then it
\* deregistered and its next call, an invoke, raised.
C21_Witness ==
    /\ Len(p_calls) = 2
    /\ p_calls[1].outcome = "returned"
    /\ p_calls[2].outcome = "RuntimeError"
    /\ p_calls[2].kind = "invoke"
    /\ Len(c_queue["c1"]) = 1
    /\ in_queue = <<>>


\* ------------------------------------------------------------------ C22
\* C22: Consumer.get on a consumer that is not registered raises
\* RuntimeError without suspending and without taking anything from the
\* consumer's queue, also when the queue holds messages; on a registered
\* consumer get suspends while the queue is empty, and returns only with the
\* oldest message of the queue.
C22_CallBy(t) ==
    /\ task[t].pc \in {"idle", "returned"}
    /\ task'[t].op = "get"
    /\ \A u \in Getters \ {t} : task'[u] = task[u]
    /\ task'[t] # task[t] \/ got' # got
C22_Call ==
    \A t \in Getters :
        C22_CallBy(t)
           => LET c == task'[t].arg IN
              IF ~registered[c]
              THEN /\ task'[t].pc = "raised"
                   /\ task'[t].exc = "RuntimeError"
                   /\ c_queue' = c_queue
                   /\ getters' = getters
                   /\ got' = got
              ELSE IF c_queue[c] = <<>>
              THEN /\ task'[t].pc = "await"
                   /\ task'[t].fut = "pending"
                   /\ got' = got
              ELSE /\ task'[t].pc = "returned"
                   /\ got'[c] = Append(got[c], Head(c_queue[c]))
                   /\ c_queue'[c] = Tail(c_queue[c])
C22_Resume ==
    \A t \in Getters :
        (task[t].pc = "await" /\ task'[t].pc # "await")
           => LET c == task[t].arg IN
              \/ /\ task'[t].pc = "raised"
                 /\ task'[t].exc = "CancelledError"
                 /\ got' = got
              \/ /\ task'[t].pc = "returned"
                 /\ c_queue[c] # <<>>
                 /\ got'[c] = Append(got[c], Head(c_queue[c]))
                 /\ c_queue'[c] = Tail(c_queue[c])
C22_GetRegistered == [][C22_Call /\ C22_Resume]_vars

\* One task got a message; the consumer deregistered with another message
\* still in its queue, and the other task's get raised.
C22_Witness ==
    /\ ~registered["c1"]
    /\ Len(c_queue["c1"]) = 1
    /\ Len(got["c1"]) = 1
    /\ \E t \in Getters :
          /\ task[t].pc = "raised"
          /\ task[t].exc = "RuntimeError"


\* ------------------------------------------------------------------ C23
\* C23: the channels wiretap, dead_letter and null always exist: after any
\* sequence of add_channel, register_channel, deregister_channel and publish
\* calls, has_channel is true for each of the three names.
C23_ThreeChannels ==
    \A name \in {"wiretap", "dead_letter", "null"} : has_channel(name)


\* ------------------------------------------------------------------ C24
\* C24: a publish called with a Channel instance is routed by the identity
\* of that instance: the message is enqueued for that very instance or for
\* the dead letter channel, and no consumer of another Channel instance that
\* is registered under the same name receives it.
C24_Routed ==
    \A k \in 1..Len(published) :
        published[k].target \in Chan
           => published[k].channel \in {published[k].target,
                                        dead_letter_channel}
C24_Received ==
    \A c \in Consumers :
        \A i \in 1..Len(Delivered(c)) :
            LET target == published[Delivered(c)[i].pub].target IN
            target \in Chan
               => channel_of[c] \in {target, dead_letter_channel}
C24_ByIdentity == C24_Routed /\ C24_Received


\* ------------------------------------------------------------------ C25
\* C25: publish delivers nothing itself and does not suspend: when it
\* returns, the broker's queue holds exactly one more entry and no
\* consumer's queue has changed; a consumer's queue takes a message only in
\* a later run of the dispatcher, so a message a consumer holds is no longer
\* in the broker's queue.
C25_Publish ==
    Len(published') = Len(published) + 1
        => /\ Len(in_queue') = Len(in_queue) + 1
           /\ SubSeq(in_queue', 1, Len(in_queue)) = in_queue
           /\ in_queue'[Len(in_queue')].pub = Len(published')
           /\ c_queue' = c_queue
           /\ getters' = getters
           /\ got' = got
           /\ task' = task
C25_Later ==
    \A c \in Consumers :
        Len(c_queue'[c]) > Len(c_queue[c])
           => /\ Dispatches
              /\ published' = published
C25_Seen ==
    \A c \in Consumers :
        \A i \in 1..Len(Delivered(c)) : ~InFlight(Delivered(c)[i].pub)
C25_PublishEnqueues == [](C25_Seen) /\ [][C25_Publish /\ C25_Later]_vars

\* Two publishes have returned, one to "x" with a consumer on its list and
\* one that was dead-lettered with a consumer on the dead letter channel;
\* both entries wait in the broker's queue and the consumers hold nothing.
C25_Witness ==
    /\ Len(in_queue) = 2
    /\ {in_queue[i].channel : i \in 1..2} = {"X1", "D"}
    /\ consumers["X1"] = <<"c1">>
    /\ consumers["D"] = <<"c3">>
    /\ c_queue["c1"] = <<>>
    /\ c_queue["c3"] = <<>>


\* ------------------------------------------------------------------ C26
\* C26: msg_id values are non-negative and strictly increasing in
\* construction order over all messages of every variant, hence unique; the
\* DeadLetterMsg that publish constructs has a msg_id greater than that of
\* the message it wraps and different from that of every message a caller
\* constructed.
C26_Increasing ==
    /\ \A i \in 1..Len(msgs) : msgs[i].msg_id >= 0
    /\ \A i, j \in 1..Len(msgs) : i < j => msgs[i].msg_id < msgs[j].msg_id
C26_Wrapper ==
    \A i \in 1..Len(msgs) :
        msgs[i].intent = "DEADLETTER"
           => /\ msgs[i].msg_id > msgs[msgs[i].msg].msg_id
              /\ \A j \in 1..Len(msgs) :
                    msgs[j].intent # "DEADLETTER"
                       => msgs[j].msg_id # msgs[i].msg_id
C26_MsgIds == C26_Increasing /\ C26_Wrapper

\* A CmdMsg whose publish raised, then an EventMsg that was dead-lettered:
\* three constructions, the wrapper last.
C26_Witness ==
    /\ Len(msgs) = 3
    /\ msgs[1].intent = "CMD"
    /\ msgs[2].intent = "EVENT"
    /\ msgs[3].intent = "DEADLETTER"
    /\ msgs[3].msg = 2
    /\ p_calls[1].outcome = "RuntimeError"


\* ------------------------------------------------------------------ C27
\* C27: a message has no timestamp from its construction until it is
\* published, and has one once MsgBroker.publish has returned; when the
\* publish is dead-lettered, the original message and the DeadLetterMsg both
\* have one.
C27_WasPublished(i) ==
    \E k \in 1..Len(published) :
        \/ published[k].msg = i
        \/ /\ msgs[i].intent = "DEADLETTER"
           /\ msgs[i].msg = published[k].msg
C27_Stamped ==
    \A i \in 1..Len(msgs) : msgs[i].timestamp <=> C27_WasPublished(i)
C27_Publish ==
    Len(published') = Len(published) + 1
        => LET p == published'[Len(published')]
               entry == in_queue'[Len(in_queue')]
           IN /\ msgs'[p.msg].timestamp
              /\ msgs'[entry.msg].timestamp
              /\ entry.msg # p.msg
                    => /\ msgs'[entry.msg].intent = "DEADLETTER"
                       /\ msgs'[entry.msg].msg = p.msg
C27_Timestamp == [](C27_Stamped) /\ [][C27_Publish]_vars

\* A message whose publish raised has no timestamp; a later one that was
\* dead-lettered has one, and so has its wrapper.
C27_Witness ==
    /\ Len(msgs) = 3
    /\ p_calls[1].outcome = "RuntimeError"
    /\ ~msgs[1].timestamp
    /\ msgs[2].timestamp
    /\ msgs[3].intent = "DEADLETTER"
    /\ msgs[3].timestamp


\* ------------------------------------------------------------------ C28
\* C28: register_channel(c) raises ValueError when a channel named c.name
\* is registered and leaves the registry as it was, the instance registered
\* before staying the one get_channel returns (otherwise it registers c);
\* deregister_channel of a channel that is not registered changes nothing
\* (and of the registered one removes it).
C28_Register ==
    last_call'.op = "register"
        => LET ch == last_call'.channel
               name == name_of[ch]
           IN IF has_channel(name)
              THEN /\ last_call'.raised = "ValueError"
                   /\ channels' = channels
              ELSE /\ last_call'.raised = "none"
                   /\ channels' = [channels EXCEPT ![name] = ch]
C28_Deregister ==
    last_call'.op = "deregister"
        => LET ch == last_call'.channel
               name == name_of[ch]
           IN IF get_channel(name) = ch
              THEN channels' = [channels EXCEPT ![name] = None]
              ELSE channels' = channels
C28_Registry == [][C28_Register /\ C28_Deregister]_vars


\* ------------------------------------------------------------------ C29
\* C29: entering the with-statement of a Producer or Consumer registers
\* it, and leaving the statement deregisters it on every exit path (the body
\* ran to its end, raised, or its task was cancelled): right after the
\* statement the participant is not on its channel's list and its
\* registered flag is false.
C29_OnList(x, ps, cs) ==
    IF x \in Producers
    THEN x \in Elems(ps[producer_channel[x]])
    ELSE x \in Elems(cs[channel_of[x]])
C29_Flag(x, pr, cr) == IF x \in Producers THEN pr[x] ELSE cr[x]
C29_Enter ==
    \A x \in Scoped :
        (scope[x].pc = "out" /\ scope'[x].pc # "out")
           => /\ C29_OnList(x, producers', consumers')
              /\ C29_Flag(x, p_registered', registered')
C29_Leave ==
    \A x \in Scoped :
        (scope[x].pc # "left" /\ scope'[x].pc = "left")
           => /\ ~C29_OnList(x, producers', consumers')
              /\ ~C29_Flag(x, p_registered', registered')
C29_Scoped == [][C29_Enter /\ C29_Leave]_vars

\* The consumer's statement was left by a cancellation and the producer's
\* by an exception; neither is registered, and the consumer holds a message
\* it was sent while both were inside.
C29_Witness ==
    /\ scope["c1"] = [pc |-> "left", how |-> "CancelledError"]
    /\ scope["p1"] = [pc |-> "left", how |-> "raised"]
    /\ ~registered["c1"]
    /\ ~p_registered["p1"]
    /\ consumers["X1"] = <<>>
    /\ producers["X1"] = <<>>
    /\ Len(c_queue["c1"]) = 1


\* ------------------------------------------------------------------ C30
\* C30 as stated: Scheduler.tasks is exactly the set of tasks started with
\* start_job that have not finished.
C30_Live == {j \in Jobs : job[j].st \in {"ready", "waiting"}}
C30_Discarding(j) ==
    \E i \in 1..Len(ready) : ready[i] = [run |-> "discard", job |-> j]
C30_Holds ==
    /\ C30_Live \subseteq tasks
    /\ \A j \in tasks : job[j].st # "none"
    /\ \A j \in Jobs :
          job[j].st \in Finished => (j \in tasks <=> C30_Discarding(j))
C30_AllFinished == \A j \in Jobs : job[j].st \in Finished \cup {"none"}
C30_Empties == <>[]C30_AllFinished => <>[](tasks = {})
C31_OnList(c, entry) == c \in Elems(consumers[entry.channel])
C31_Handed(c) ==
    SelectSeq([i \in 1..Len(in_queue) |->
                  [msg |-> in_queue[i].msg, pub |-> in_queue[i].pub,
                   to |-> C31_OnList(c, in_queue[i])]],
              LAMBDA e : e.to)
C31_Dispatch ==
    Dispatches
        => \A c \in Consumers :
              /\ Len(c_queue'[c]) = Len(c_queue[c]) + Len(C31_Handed(c))
              /\ \A i \in 1..Len(c_queue[c]) : c_queue'[c][i] = c_queue[c][i]
              /\ \A i \in 1..Len(C31_Handed(c)) :
                    /\ c_queue'[c][Len(c_queue[c]) + i].msg
                          = C31_Handed(c)[i].msg
                    /\ c_queue'[c][Len(c_queue[c]) + i].pub
                          = C31_Handed(c)[i].pub
C31_AtDispatch == [][C31_Dispatch]_vars

\* A message was published to "x" while c2 was on the list and c1 was not;
\* c2 deregistered and c1 registered before the dispatcher ran: c1 holds the
\* message, c2 holds nothing.
C31_Witness ==
    /\ Len(published) = 1
    /\ listed = <<{"c2"}>>
    /\ published[1].stayed = {}
    /\ ~InFlight(1)
    /\ consumers["X1"] = <<"c1">>
    /\ CountOf(c_queue["c1"], 1) = 1
    /\ c_queue["c2"] = <<>>


\* ------------------------------------------------------------------ C32
\* C32: the registry decides at the publish call, and only then, where a
\* message goes.  A publish call whose target's name is registered queues
\* the message itself for the instance registered at that moment, one whose
\* name is not registered queues a DeadLetterMsg for the dead letter
\* channel; when the dispatcher runs, a queued message goes to the
\* consumers of the instance chosen at publish, also when that name is no
\* longer registered, and a queued dead letter goes to the consumers of the
\* dead letter channel only, also when its name is registered by now.
C32_Publish ==
    Len(published') = Len(published) + 1
        => LET k == Len(published')
               name == TargetName(published'[k].target)
               entry == in_queue'[Len(in_queue')]
           IN /\ Len(in_queue') = Len(in_queue) + 1
              /\ entry.pub = k
              /\ IF channels[name] = None
                 THEN /\ entry.channel = dead_letter_channel
                      /\ msgs'[entry.msg].intent = "DEADLETTER"
                 ELSE /\ entry.channel = channels[name]
                      /\ entry.msg = published'[k].msg
                      /\ msgs'[entry.msg].intent # "DEADLETTER"
              /\ published'[k].channel = entry.channel
C32_Dispatch ==
    Dispatches
        => \A i \in 1..Len(in_queue), c \in Consumers :
              LET k == in_queue[i].pub
                  chosen == IF msgs[in_queue[i].msg].intent = "DEADLETTER"
                            THEN dead_letter_channel
                            ELSE published[k].channel
                  new == SubSeq(c_queue'[c], Len(c_queue[c]) + 1,
                                Len(c_queue'[c]))
              IN /\ CountOf(new, k)
                       = IF c \in Elems(consumers[chosen]) THEN 1 ELSE 0
                 /\ \A j \in 1..Len(new) :
                       new[j].pub = k => new[j].msg = in_queue[i].msg
C32_DecidedAtPublish == [][C32_Publish /\ C32_Dispatch]_vars

\* Two messages were published to "x" and wait in the broker's queue: the
\* first was published while "x" was not registered and is a dead letter,
\* though X1 was registered before the dispatcher ran; the second was
\* published while X1 was registered and is queued for X1, though "x" has
\* been deregistered since.  Each channel has its consumer on its list.
C32_Witness ==
    /\ Len(published) = 2
    /\ published[1].target = "x"
    /\ published[2].target = "x"
    /\ channels["x"] = None
    /\ Len(in_queue) = 2
    /\ in_queue[1].channel = "D"
    /\ msgs[in_queue[1].msg].intent = "DEADLETTER"
    /\ msgs[in_queue[1].msg].channel_name = "x"
    /\ in_queue[2].channel = "X1"
    /\ msgs[in_queue[2].msg].intent = "DATA"
    /\ consumers["X1"] = <<"c1">>
    /\ consumers["D"] = <<"c3">>


\* ------------------------------------------------------------------ C33
\* C33: whenever flush_awaiters holds a waiter that nothing has resolved or
\* cancelled, writing_paused is true.
C33_WaitsOnlyWhilePaused ==
    \A i \in 1..Len(flush_awaiters) :
        Waiting(flush_awaiters[i]) => writing_paused

\* ------------------------------------------------------------------ C34
\* C34: in every step in which a flush or send call returns, writing_paused
\* is false.
C34_Return ==
    \A t \in Writers :
        (Returns(t) /\ task'[t].op \in {"flush", "send"}) => ~writing_paused'
C34_ReturnsUnpaused == [][C34_Return]_vars

\* ------------------------------------------------------------------ C35
\* C35: in every step in which a recv(size) call with size > 0 returns, the
\* result has at least 1 and at most size bytes.
C35_Return ==
    \A t \in Readers :
        (Returns(t) /\ task'[t].op = "recv" /\ task'[t].arg > 0)
            => /\ Len(task'[t].result) >= 1
               /\ Len(task'[t].result) <= task'[t].arg
C35_RecvNotEmpty == [][C35_Return]_vars


\* ------------------------------------------------------------------ C36
\* C36: the length attribute of a packet decoded from a frame equals the
\* 16-bit big-endian length field in bytes 3-4 of that frame (places 4 and
\* 5 here, counting from 1).
C36_KeepsLength ==
    IsPacket(decoded) => decoded.length = unpack_H(frame[4], frame[5])


\* ------------------------------------------------------------------ C37
\* C37: a step in which the connection is lost clears connected, sets
\* writing_paused, and changes neither the receive buffer, buffer_awaiter,
\* flush_awaiters nor any task (no suspended call is resolved or failed);
\* and a recv or recv_exactly made while the endpoint is not connected
\* still returns the bytes at the head of the buffer when enough are there.
C37_Lost ==
    (connected /\ ~connected')
        => /\ writing_paused'
           /\ UNCHANGED <<buffer, buffer_awaiter, flush_awaiters, task>>
C37_Readable ==
    \A t \in Readers :
        /\ (Calls(t, "recv") /\ ~connected /\ buffer # <<>>)
              => /\ task'[t].pc = "returned"
                 /\ task'[t].result = Take(buffer, task'[t].arg)
                 /\ buffer' = Drop(buffer, task'[t].arg)
        /\ (Calls(t, "recv_exactly") /\ ~connected
                /\ Len(buffer) >= task'[t].arg)
              => /\ task'[t].pc = "returned"
                 /\ task'[t].result = Take(buffer, task'[t].arg)
C37_LossKeepsAll == [][C37_Lost /\ C37_Readable]_vars

\* The connection was lost while a recv_exactly waits for a second byte and
\* a flush waits for resume_writing: both are still suspended, unresolved,
\* the byte that arrived is still in the buffer, and the waiters are still
\* in place.
C37_Witness ==
    /\ transport = "open" /\ ~connected /\ writing_paused
    /\ Len(buffer) = 1
    /\ buffer_awaiter = "r1"
    /\ task["r1"].op = "recv_exactly" /\ Waiting("r1")
    /\ flush_awaiters = <<"w1">>
    /\ Waiting("w1")


\* ------------------------------------------------------------------ C38
\* C38: whenever the connected flag is clear, writing_paused is true.
C38_PausedWhileDisconnected == ~connected => writing_paused


\* ------------------------------------------------------------------ C39
\* C39: every message a consumer has been handed was published with a
\* target that is the channel on whose list the consumer is (the Channel
\* itself, or its name), or else the consumer is on the dead letter
\* channel's list and the message is the DeadLetterMsg publish built around
\* the published message.
C39_Targets(target, ch) ==
    IF target \in Names THEN name_of[ch] = target ELSE ch = target
C39_NoCrossing ==
    \A c \in Consumers :
        \A i \in 1..Len(Delivered(c)) :
            LET item == Delivered(c)[i]
                p == published[item.pub]
                m == msgs[item.msg]
            IN \/ /\ C39_Targets(p.target, channel_of[c])
                  /\ item.msg = p.msg
               \/ /\ channel_of[c] = dead_letter_channel
                  /\ m.intent = "DEADLETTER"
                  /\ m.msg = p.msg


\* ------------------------------------------------------------------ C40
\* C40: a consumer's registered flag is true exactly when the consumer is
\* on the consumers list of its channel, and a producer's exactly when the
\* producer is on the producers list of its channel.
C40_FlagIsMembership ==
    /\ \A c \in Consumers :
          registered[c] <=> c \in Elems(consumers[channel_of[c]])
    /\ \A p \in Producers :
          p_registered[p] <=> p \in Elems(producers[producer_channel[p]])

====
